---- MODULE Spec2Model ----
(***************************************************************************)
(* Provisioning of the NFS volumes a VM requires (the "provisionChain" of  *)
(* the start workflow), modelled from src/unnamed/part_001.                *)
(* The script that backfills image_uuid for KVM VMs is modelled from       *)
(* src/unnamed/part_000.                                                   *)
(*                                                                         *)
(* JavaScript strings are sequences of one-character strings, JavaScript   *)
(* values are tagged records, and objects keep their keys in insertion     *)
(* order, as Object.keys and for-in enumerate them.                        *)
(***************************************************************************)
EXTENDS Integers, Sequences, FiniteSets, TLC

(***************************************************************************)
(* JavaScript values                                                       *)
(***************************************************************************)
Undefined == [t |-> "undefined"]
JNull == [t |-> "null"]
JNum(n) == [t |-> "number", n |-> n]
JStr(s) == [t |-> "string", s |-> s]
\* A string of the program kept whole, not as its characters.
JText(text) == [t |-> "string", text |-> text]
JArr(items) == [t |-> "array", items |-> items]
\* An object: its keys (strings) in insertion order, and the value of each.
JObj(keys, vals) == [t |-> "object", keys |-> keys, vals |-> vals]
EmptyObj == JObj(<<>>, <<>>)

IsString(v) == v.t = "string"
\* typeof (v) === 'object': true of null and of arrays too.
TypeofObject(v) == v.t \in {"object", "array", "null"}

RECURSIVE IndexOf(_, _, _)
IndexOf(seq, x, i) ==
    IF i > Len(seq) THEN 0
    ELSE IF seq[i] = x THEN i ELSE IndexOf(seq, x, i + 1)

HasKey(o, k) == IndexOf(o.keys, k, 1) # 0
\* o[k]: undefined when o has no such property.
Get(o, k) == IF HasKey(o, k) THEN o.vals[IndexOf(o.keys, k, 1)] ELSE Undefined
\* o[k] = v: an existing key keeps its place, a new key is appended.
Put(o, k, v) ==
    IF HasKey(o, k)
    THEN JObj(o.keys, [o.vals EXCEPT ![IndexOf(o.keys, k, 1)] = v])
    ELSE JObj(Append(o.keys, k), Append(o.vals, v))

Range(seq) == {seq[i] : i \in 1..Len(seq)}

(***************************************************************************)
(* JSON.stringify and JSON.parse on the values above                       *)
(***************************************************************************)
Quote == "\""
Backslash == "\\"

RECURSIVE Escape(_)
Escape(s) ==
    IF s = <<>> THEN <<>>
    ELSE IF Head(s) \in {Quote, Backslash}
         THEN <<Backslash, Head(s)>> \o Escape(Tail(s))
         ELSE <<Head(s)>> \o Escape(Tail(s))

\* A string written between quotes with nothing escaped.
StringifyStringUnescaped(s) == <<Quote>> \o s \o <<Quote>>

StringifyString(s) == <<Quote>> \o Escape(s) \o <<Quote>>

Digit(n) == <<"0", "1", "2", "3", "4", "5", "6", "7", "8", "9">>[n + 1]

RECURSIVE Stringify(_), StringifyItems(_, _), StringifyMembers(_, _, _)
\* JSON.stringify(v) for a v that is not undefined.
Stringify(v) ==
    CASE v.t = "string" -> StringifyString(v.s)
      [] v.t = "number" -> <<Digit(v.n)>>
      [] v.t = "null" -> <<"n", "u", "l", "l">>
      [] v.t = "array" -> <<"[">> \o StringifyItems(v.items, 1) \o <<"]">>
      [] v.t = "object" -> <<"{">> \o StringifyMembers(v, 1, TRUE) \o <<"}">>

\* The elements of an array from index i on; undefined is written as null.
StringifyItems(items, i) ==
    IF i > Len(items) THEN <<>>
    ELSE (IF i > 1 THEN <<",">> ELSE <<>>)
         \o (IF items[i] = Undefined THEN Stringify(JNull) ELSE Stringify(items[i]))
         \o StringifyItems(items, i + 1)

\* The members of an object from index i on; a member whose value is
\* undefined is left out.
StringifyMembers(o, i, first) ==
    IF i > Len(o.keys) THEN <<>>
    ELSE IF o.vals[i] = Undefined THEN StringifyMembers(o, i + 1, first)
    ELSE (IF first THEN <<>> ELSE <<",">>)
         \o StringifyString(o.keys[i]) \o <<":">> \o Stringify(o.vals[i])
         \o StringifyMembers(o, i + 1, FALSE)

ParseFail == [ok |-> FALSE, val |-> Undefined, pos |-> 0]
ParseOk(v, p) == [ok |-> TRUE, val |-> v, pos |-> p]
Digits == {"0", "1", "2", "3", "4", "5", "6", "7", "8", "9"}
DigitValue(c) == CHOOSE n \in 0..9 : Digit(n) = c

RECURSIVE SkipWs(_, _)
SkipWs(s, i) == IF i <= Len(s) /\ s[i] = " " THEN SkipWs(s, i + 1) ELSE i

\* The characters of a string literal whose opening quote is before i.
RECURSIVE ParseChars(_, _, _)
ParseChars(s, i, acc) ==
    IF i > Len(s) THEN ParseFail
    ELSE IF s[i] = Quote THEN ParseOk(acc, i + 1)
    ELSE IF s[i] = Backslash
         THEN IF i + 1 <= Len(s) /\ s[i + 1] \in {Quote, Backslash}
              THEN ParseChars(s, i + 2, Append(acc, s[i + 1]))
              ELSE ParseFail
         ELSE ParseChars(s, i + 1, Append(acc, s[i]))

RECURSIVE ParseValue(_, _), ParseItems(_, _, _), ParseMembers(_, _, _)
ParseValue(s, i0) ==
    LET i == SkipWs(s, i0) IN
    IF i > Len(s) THEN ParseFail
    ELSE IF s[i] = Quote
         THEN LET r == ParseChars(s, i + 1, <<>>) IN
              IF r.ok THEN ParseOk(JStr(r.val), r.pos) ELSE ParseFail
    ELSE IF s[i] \in Digits THEN ParseOk(JNum(DigitValue(s[i])), i + 1)
    ELSE IF s[i] = "n"
         THEN IF i + 3 <= Len(s) /\ SubSeq(s, i, i + 3) = <<"n", "u", "l", "l">>
              THEN ParseOk(JNull, i + 4) ELSE ParseFail
    ELSE IF s[i] = "["
         THEN LET j == SkipWs(s, i + 1) IN
              IF j <= Len(s) /\ s[j] = "]" THEN ParseOk(JArr(<<>>), j + 1)
              ELSE ParseItems(s, j, <<>>)
    ELSE IF s[i] = "{"
         THEN LET j == SkipWs(s, i + 1) IN
              IF j <= Len(s) /\ s[j] = "}" THEN ParseOk(EmptyObj, j + 1)
              ELSE ParseMembers(s, j, EmptyObj)
    ELSE ParseFail

\* The elements of an array after "[" or ",", up to and including "]".
ParseItems(s, i, acc) ==
    LET r == ParseValue(s, i) IN
    IF ~r.ok THEN ParseFail
    ELSE LET j == SkipWs(s, r.pos) IN
         IF j > Len(s) THEN ParseFail
         ELSE IF s[j] = "," THEN ParseItems(s, j + 1, Append(acc, r.val))
         ELSE IF s[j] = "]" THEN ParseOk(JArr(Append(acc, r.val)), j + 1)
         ELSE ParseFail

\* The members of an object after "{" or ",", up to and including "}".
ParseMembers(s, i0, acc) ==
    LET i == SkipWs(s, i0) IN
    IF i > Len(s) \/ s[i] # Quote THEN ParseFail
    ELSE LET k == ParseChars(s, i + 1, <<>>) IN
         IF ~k.ok THEN ParseFail
         ELSE LET c == SkipWs(s, k.pos) IN
              IF c > Len(s) \/ s[c] # ":" THEN ParseFail
              ELSE LET r == ParseValue(s, c + 1) IN
                   IF ~r.ok THEN ParseFail
                   ELSE LET j == SkipWs(s, r.pos) IN
                        IF j > Len(s) THEN ParseFail
                        ELSE IF s[j] = ","
                             THEN ParseMembers(s, j + 1, Put(acc, k.val, r.val))
                        ELSE IF s[j] = "}"
                             THEN ParseOk(Put(acc, k.val, r.val), j + 1)
                        ELSE ParseFail

\* JSON.parse(s): ok is FALSE where JSON.parse throws.
JsonParse(s) ==
    LET r == ParseValue(s, 1) IN
    IF r.ok /\ SkipWs(s, r.pos) = Len(s) + 1 THEN [ok |-> TRUE, val |-> r.val]
    ELSE [ok |-> FALSE, val |-> Undefined]

(***************************************************************************)
(* Strings and identifiers of the program                                  *)
(***************************************************************************)
KeyName == <<"n", "a", "m", "e">>
KeyMountpoint == <<"m", "o", "u", "n", "t", "p", "o", "i", "n", "t">>
KeyNfsvolume == <<"n", "f", "s", "v", "o", "l", "u", "m", "e">>
KeyRequired == "docker:nfs_volumes_required"
KeyNfsVolumes == "docker:nfsvolumes"
OverlayPrefix == <<"s", "d", "c", "_", "o", "v", "e", "r", "l", "a", "y", "/">>

\* job.params of the runs of the workflow: every run is for the same VM.
Params == [vm_uuid |-> "vm-1", owner_uuid |-> "owner-1", server_uuid |-> "server-1"]

NoErr == [isErr |-> FALSE, msg |-> "", cause |-> ""]
Err(msg, cause) == [isErr |-> TRUE, msg |-> msg, cause |-> cause]

\* String(v) for a property key.
ToKey(v) ==
    CASE v.t = "string" -> v.s
      [] v.t = "number" -> <<Digit(v.n)>>
      [] v.t = "null" -> <<"n", "u", "l", "l">>
      [] OTHER -> <<"u", "n", "d", "e", "f", "i", "n", "e", "d">>

\* s.indexOf(p) === 0
StartsWith(s, p) == Len(s) >= Len(p) /\ SubSeq(s, 1, Len(p)) = p

(***************************************************************************)
(* State                                                                   *)
(***************************************************************************)
Jobs == {"run1", "run2"}

VARIABLES
    vmapiVm,    \* the VM as VMAPI's getVm returns it (Undefined: no such VM)
    nodeMeta,   \* the VM's internal_metadata on its compute node
    volumes,    \* VOLAPI's volumes, in creation order
    nodeTasks,  \* per run: the CNAPI update task the run has requested
    runs,       \* per run of the workflow: the job object and where the run is
    faults,     \* the service failures and deletions injected so far
    poller,     \* an invocation of waitForNfsVolumesMetadataUpdated on a job
    backfill    \* the script that backfills image_uuid for KVM VMs

vars == <<vmapiVm, nodeMeta, volumes, nodeTasks, runs, faults, poller, backfill>>

\* Service failures and deletions injected in one behaviour.
MaxFaults == 1
\* getVolume calls of one readiness loop.
MaxPolls == 2

FreshJob ==
    [vm |-> Undefined, mapRequiredNfsVolumes |-> Undefined,
     createdVolumes |-> Undefined, updatedVmInternalMetadata |-> Undefined,
     stringifiedRequiredNfsVolumesMetadata |-> Undefined,
     endpoint |-> Undefined, requestMethod |-> Undefined, action |-> Undefined,
     server_uuid |-> Undefined, payload |-> Undefined]

\* A run of the workflow. step is the index in provisionChain of the task
\* being executed, pc the place inside it; tasks and loops are the
\* operations of the two vasync.forEachParallel calls; cbs lists every
\* invocation of a task's completion callback. afterOther records that the
\* run started once another run had finished provisioning. updatedRef tells
\* which object job.updatedVmInternalMetadata refers to.
FreshRun(status) ==
    [status |-> status, step |-> 1, pc |-> "start", job |-> FreshJob,
     ctx |-> [mapRequiredNfsVolumes |-> Undefined, createdVolumes |-> Undefined],
     tasks |-> <<>>, loops |-> <<>>, cbs |-> <<>>, nCallback |-> 0,
     afterOther |-> FALSE, updatedRef |-> "unset",
     calls |-> [createVolume |-> 0, listVolumes |-> 0, getVolume |-> 0]]

(***************************************************************************)
(* The workflow engine and the chain                                       *)
(***************************************************************************)
provisionChain ==
    << [name |-> "volapi.provision_nfs_volumes", body |-> "provisionNfsVolumes"],
       [name |-> "cnapi.wait_for_nfs_volumes_provisions",
        body |-> "waitForNfsVolumeProvisions"],
       [name |-> "cnapi.build_nfs_volumes_metadata",
        body |-> "buildNfsVolumesMetadata"],
       [name |-> "setup_update_vm_nfs_volumes_metadata_request",
        body |-> "setupUpdateVmNfsVolumesMetadataRequest"],
       [name |-> "cnapi.update_vm", body |-> "common.zoneAction"],
       [name |-> "cnapi.wait_task", body |-> "common.waitTask"] >>

\* Run r is about to execute the task whose body is `body`.
AtTask(r, body) ==
    /\ r.status = "running"
    /\ r.pc = "start"
    /\ r.step <= Len(provisionChain)
    /\ provisionChain[r.step].body = body

\* The engine's cb(err, msg) of the task run r is in: the first invocation
\* fails the run or moves it to the next task of the chain.
TaskCallback(r, err, msg) ==
    LET logged == [r EXCEPT !.cbs =
                      Append(@, [step |-> r.step, err |-> err, msg |-> msg])]
    IN
    IF \E i \in 1..Len(r.cbs) : r.cbs[i].step = r.step THEN logged
    ELSE IF err.isErr THEN [logged EXCEPT !.status = "failed", !.pc = "done"]
    ELSE IF r.step = Len(provisionChain)
         THEN [logged EXCEPT !.status = "succeeded", !.pc = "done"]
    ELSE [logged EXCEPT !.step = @ + 1, !.pc = "start"]

(***************************************************************************)
(* provisionNfsVolumes: loadRequiredNfsVolumes                             *)
(***************************************************************************)
\* !!v
Truthy(v) ==
    CASE v.t \in {"undefined", "null"} -> FALSE
      [] v.t = "string" -> v.s # <<>>
      [] v.t = "number" -> v.n # 0
      [] OTHER -> TRUE

\* v[k] of a value that need not be a plain object.
PropertyOf(v, k) == IF v.t = "object" THEN Get(v, k) ELSE Undefined

\* parsedRequiredNfsVolumes.forEach(...) with an element that is not an
\* object skipped silently.
RECURSIVE ForEachRequiredVolumeSkipping(_, _, _)
ForEachRequiredVolumeSkipping(items, i, acc) ==
    IF i > Len(items) THEN acc
    ELSE IF items[i].t = "null" \/ ~TypeofObject(items[i])
         THEN ForEachRequiredVolumeSkipping(items, i + 1, acc)
         ELSE ForEachRequiredVolumeSkipping(items, i + 1,
                  [acc EXCEPT !.map =
                      Put(@, ToKey(PropertyOf(items[i], KeyName)), items[i])])

\* parsedRequiredNfsVolumes.forEach(...): acc holds the map built so far
\* and the errors passed to callback so far.
RECURSIVE ForEachRequiredVolume(_, _, _)
ForEachRequiredVolume(items, i, acc) ==
    IF i > Len(items) THEN acc
    ELSE IF items[i].t = "null" \/ ~TypeofObject(items[i])
         THEN ForEachRequiredVolume(items, i + 1,
                  [acc EXCEPT !.callbacks =
                      Append(@, Err("requiredVolume must be an object", ""))])
         ELSE ForEachRequiredVolume(items, i + 1,
                  [acc EXCEPT !.map =
                      Put(@, ToKey(PropertyOf(items[i], KeyName)), items[i])])

\* onGetVm(err, vm) of loadRequiredNfsVolumes: whether job.vm is assigned,
\* the arguments of every invocation of callback, in order, and the map
\* assigned to ctx and job (Undefined when that line is not reached).
LoadRequiredNfsVolumes(vm) ==
    LET meta == vm.internal_metadata
        requiredNfsVolumesString == PropertyOf(meta, KeyRequired)
        parse == IF Truthy(requiredNfsVolumesString)
                 THEN JsonParse(requiredNfsVolumesString.s)
                 ELSE [ok |-> TRUE, val |-> Undefined]
        parseCallbacks ==
            IF parse.ok THEN <<>>
            ELSE <<Err("Could not parse docker:nfs_volumes_required internal metadata",
                       "")>>
        each == ForEachRequiredVolume(parse.val.items, 1,
                    [map |-> EmptyObj, callbacks |-> parseCallbacks])
    IN
    IF ~Truthy(vm)
    THEN [setVm |-> FALSE, map |-> Undefined,
          callbacks |-> <<Err("Could not get VM with uuid", Params.vm_uuid)>>]
    ELSE IF ~Truthy(meta) \/ ~TypeofObject(meta)
    THEN [setVm |-> TRUE, map |-> Undefined,
          callbacks |-> <<Err("internal_metadata property missing from VM object",
                              "")>>]
    ELSE IF requiredNfsVolumesString # Undefined /\ ~IsString(requiredNfsVolumesString)
    THEN [setVm |-> TRUE, map |-> Undefined,
          callbacks |->
              <<Err("docker:nfs_volumes_required internal_metadata property must be a string if present",
                    "")>>]
    ELSE IF parse.val.t # "array"
    THEN [setVm |-> TRUE, map |-> Undefined,
          callbacks |-> Append(parseCallbacks,
              Err("docker:nfs_volumes_required internal metadata must represent an array",
                  ""))]
    ELSE [setVm |-> TRUE, map |-> each.map,
          callbacks |-> Append(each.callbacks, NoErr)]

(***************************************************************************)
(* provisionNfsVolumes: the pipeline's end and provisionRequiredNfsVolumes *)
(***************************************************************************)
\* '' + err: the text of an error, its message followed by what the
\* message was built from.
ErrText(err) == err.msg \o err.cause

\* allVolumesProvisioned(err, results), the callback of vasync.pipeline.
AllVolumesProvisioned(r, err) ==
    IF err.isErr
    THEN TaskCallback(r, Err("Could not provision volumes, reason: ", ErrText(err)), "")
    ELSE TaskCallback([r EXCEPT !.job.createdVolumes = r.ctx.createdVolumes], NoErr,
                      "All volumes provisioned")

\* getOverlayNetwork(network), the function mapped over job.vm.nics.
GetOverlayNetwork(network) ==
    IF ~TypeofObject(network) THEN Undefined
    ELSE IF Truthy(network.nic_tag) /\ StartsWith(network.nic_tag.s, OverlayPrefix)
    THEN network.network_uuid
    ELSE Undefined

\* job.vm.nics.map(getOverlayNetwork): one element per NIC.
Networks(nics) == [k \in 1..Len(nics) |-> GetOverlayNetwork(nics[k])]

\* The part of provisionRequiredNfsVolumes(ctx, callback) that runs before
\* any answer of VOLAPI: with no required volume it calls back at once,
\* otherwise vasync.forEachParallel starts provisionNfsVolume on every
\* name, and each sends its createVolume request.
ProvisionRequiredNfsVolumes(r) ==
    LET map == r.ctx.mapRequiredNfsVolumes
        r1 == [r EXCEPT !.ctx.createdVolumes = EmptyObj]
    IN
    IF map.t = "null" \/ ~TypeofObject(map)
    THEN AllVolumesProvisioned(r, Err("ctx.mapRequiredNfsVolumes must be an object", ""))
    ELSE IF Len(map.keys) = 0 THEN AllVolumesProvisioned(r1, NoErr)
    ELSE [r1 EXCEPT
            !.pc = "tasks",
            !.tasks = [i \in 1..Len(map.keys) |->
                          [input |-> map.keys[i], st |-> "createVolume",
                           networks |-> Networks(r.job.vm.nics),
                           err |-> NoErr, result |-> Undefined,
                           lookedUp |-> FALSE, matches |-> -1]],
            !.calls.createVolume = @ + Len(map.keys)]

\* onGetVm of loadRequiredNfsVolumes, and what the pipeline does with the
\* first invocation of its callback: the next function, or the end.
OnGetVm(r, vm) ==
    LET res == LoadRequiredNfsVolumes(vm)
        r1 == [r EXCEPT
                 !.job.vm = IF res.setVm THEN vm ELSE @,
                 !.job.mapRequiredNfsVolumes = IF res.map # Undefined THEN res.map ELSE @,
                 !.ctx.mapRequiredNfsVolumes = IF res.map # Undefined THEN res.map ELSE @,
                 !.nCallback = Len(res.callbacks)]
    IN
    IF res.callbacks[1].isErr THEN AllVolumesProvisioned(r1, res.callbacks[1])
    ELSE ProvisionRequiredNfsVolumes(r1)

\* The results of forEachParallel once every operation has called back:
\* onAllRequiredVolumesProvisioned(err, results), then the pipeline's end.
\* The results collected under the volumes' names.
RECURSIVE CollectCreatedVolumesByName(_, _, _)
CollectCreatedVolumesByName(tasks, i, acc) ==
    IF i > Len(tasks) THEN acc
    ELSE CollectCreatedVolumesByName(tasks, i + 1,
             Put(acc, tasks[i].result.name, tasks[i].result))

RECURSIVE CollectCreatedVolumes(_, _, _)
CollectCreatedVolumes(tasks, i, acc) ==
    IF i > Len(tasks) THEN acc
    ELSE CollectCreatedVolumes(tasks, i + 1,
             Put(acc, tasks[i].result.uuid, tasks[i].result))

\* The MultiError forEachParallel passes on when n operations failed.
MultiError(n, first) ==
    Err("first of " \o ToString(n) \o (IF n = 1 THEN " error: " ELSE " errors: "),
        ErrText(first))

\* onAllRequiredVolumesProvisioned that keeps the volumes of the operations
\* that succeeded when another one failed.
OnAllRequiredVolumesProvisionedPartial(r) ==
    LET failed == {k \in 1..Len(r.tasks) : r.tasks[k].st = "fail"}
        first == CHOOSE k \in failed : \A m \in failed : k <= m
        done == SelectSeq(r.tasks, LAMBDA t : t.st = "ok")
        r1 == [r EXCEPT !.ctx.createdVolumes = CollectCreatedVolumes(done, 1, EmptyObj)]
    IN
    IF failed # {}
    THEN AllVolumesProvisioned(r1, MultiError(Cardinality(failed), r.tasks[first].err))
    ELSE AllVolumesProvisioned(r1, NoErr)

OnAllRequiredVolumesProvisioned(r) ==
    LET failed == {k \in 1..Len(r.tasks) : r.tasks[k].st = "fail"}
        first == CHOOSE k \in failed : \A m \in failed : k <= m
        notObject == {k \in 1..Len(r.tasks) :
                         r.tasks[k].result.t = "null" \/ ~TypeofObject(r.tasks[k].result)}
    IN
    IF failed # {}
    THEN AllVolumesProvisioned(r, MultiError(Cardinality(failed), r.tasks[first].err))
    ELSE IF notObject # {}
    THEN AllVolumesProvisioned(r, Err("operationResult must be an object", ""))
    ELSE AllVolumesProvisioned(
             [r EXCEPT !.ctx.createdVolumes = CollectCreatedVolumes(r.tasks, 1, EmptyObj)],
             NoErr)

\* callback(err, result) of one provisionNfsVolume: forEachParallel records
\* it and, when it was the last one pending, reports.
ProvisionDone(r, i, err, result) ==
    LET r1 == [r EXCEPT !.tasks[i] =
                  [@ EXCEPT !.st = IF err.isErr THEN "fail" ELSE "ok",
                            !.err = err, !.result = result]]
    IN
    IF \E k \in 1..Len(r1.tasks) : r1.tasks[k].st \notin {"ok", "fail"} THEN r1
    ELSE OnAllRequiredVolumesProvisioned(r1)

\* onVolumeCreated that reports the duplicate-name conflict as a failure.
OnVolumeCreatedNoLookup(r, i, volumeCreationErr, createdVolume) ==
    ProvisionDone(r, i, volumeCreationErr, createdVolume)

\* onVolumeCreated(volumeCreationErr, createdVolume)
OnVolumeCreated(r, i, volumeCreationErr, createdVolume) ==
    IF volumeCreationErr.isErr /\ volumeCreationErr.msg = "VOLUME_ALREADY_EXISTS"
    THEN [r EXCEPT !.tasks[i].st = "listVolumes", !.tasks[i].lookedUp = TRUE,
                   !.calls.listVolumes = @ + 1]
    ELSE ProvisionDone(r, i, volumeCreationErr, createdVolume)

\* onListVolumes that takes the first volume whenever there is one.
OnListVolumesTakesFirst(r, i, listVolumesErr, vols) ==
    LET r1 == [r EXCEPT !.tasks[i].matches =
                  IF listVolumesErr.isErr THEN @ ELSE Len(vols)]
    IN
    IF ~listVolumesErr.isErr
    THEN IF Len(vols) = 0
         THEN ProvisionDone(r1, i,
                  Err("There must be either no or one volume with name", ""),
                  Undefined)
         ELSE ProvisionDone(r1, i, NoErr, vols[1])
    ELSE ProvisionDone(r1, i, listVolumesErr, Undefined)

\* onListVolumes that calls back without the volume it found.
OnListVolumesDropsVolume(r, i, listVolumesErr, vols) ==
    IF ~listVolumesErr.isErr /\ Len(vols) # 1
    THEN ProvisionDone(r, i,
             Err("There must be either no or one volume with name", ""), Undefined)
    ELSE ProvisionDone(r, i, listVolumesErr, Undefined)

\* onListVolumes(listVolumesErr, volumes)
OnListVolumes(r, i, listVolumesErr, vols) ==
    LET r1 == [r EXCEPT !.tasks[i].matches =
                  IF listVolumesErr.isErr THEN @ ELSE Len(vols)]
    IN
    IF ~listVolumesErr.isErr
    THEN IF Len(vols) # 1
         THEN ProvisionDone(r1, i,
                  Err("There must be either no or one volume with name", ""),
                  Undefined)
         ELSE ProvisionDone(r1, i, NoErr, vols[1])
    ELSE ProvisionDone(r1, i, listVolumesErr, Undefined)

(***************************************************************************)
(* VOLAPI                                                                  *)
(***************************************************************************)
VolUuid(i) == <<"vol-1", "vol-2", "vol-3", "vol-4", "vol-5", "vol-6", "vol-7", "vol-8">>[i]

\* The export path VOLAPI gives volume number i once it is ready.
FilesystemPath(i, name) == JStr(<<Digit(i), ":", "/">> \o name)

\* The volumes listVolumes({name, owner_uuid}) returns.
ListVolumes(vols, name, owner) ==
    SelectSeq(vols, LAMBDA v : v.name = name /\ v.owner_uuid = owner
                               /\ v.state # "deleted")

\* The volume createVolume makes from the request of provisionNfsVolume.
CreatedVolume(vols, r, name) ==
    [t |-> "object", uuid |-> VolUuid(Len(vols) + 1), name |-> name,
     owner_uuid |-> Params.owner_uuid, state |-> "creating",
     filesystem_path |-> Undefined,
     networks |-> Networks(r.job.vm.nics)]

\* The volume getVolume({uuid}) returns, Undefined when there is none.
GetVolume(vols, uuid) ==
    IF \E k \in 1..Len(vols) : vols[k].uuid = uuid /\ vols[k].state # "deleted"
    THEN vols[CHOOSE k \in 1..Len(vols) : vols[k].uuid = uuid]
    ELSE Undefined

(***************************************************************************)
(* waitForNfsVolumeProvisions                                              *)
(***************************************************************************)
\* allVolumesReady(err, results)
AllVolumesReady(r) ==
    IF \E k \in 1..Len(r.loops) : r.loops[k].st = "fail"
    THEN TaskCallback(r, Err("Could not determine if all required volumes are ready", ""),
                      "")
    ELSE TaskCallback(r, NoErr, "All required volumes ready")

\* A forEachParallel that reports as soon as one operation has called back.
LoopDoneFirst(r, i, err) ==
    AllVolumesReady([r EXCEPT !.loops[i] =
                        [@ EXCEPT !.st = IF err.isErr THEN "fail" ELSE "ok",
                                  !.err = err]])

\* done(err) of one checkVolumeCreated: forEachParallel records it and,
\* when it was the last one pending, reports.
LoopDone(r, i, err) ==
    LET r1 == [r EXCEPT !.loops[i] =
                  [@ EXCEPT !.st = IF err.isErr THEN "fail" ELSE "ok", !.err = err]]
    IN
    IF \E k \in 1..Len(r1.loops) : r1.loops[k].st \notin {"ok", "fail"} THEN r1
    ELSE AllVolumesReady(r1)

\* A waitForNfsVolumeProvisions that waits for no volume.
WaitForNfsVolumeProvisionsNoWait(r) ==
    TaskCallback(r, NoErr, "No required NFS volume to wait for")

\* waitForNfsVolumeProvisions(job, callback) up to the first getVolume call
\* of every loop. job.requiredNfsVolumes is assigned nowhere, so the first
\* check passes.
WaitForNfsVolumeProvisions(r) ==
    LET cv == r.job.createdVolumes IN
    IF ~Truthy(cv) \/ Len(cv.keys) = 0
    THEN TaskCallback(r, NoErr, "No required NFS volume to wait for")
    ELSE [r EXCEPT
            !.pc = "tasks",
            !.loops = [i \in 1..Len(cv.keys) |->
                          [uuid |-> cv.keys[i], st |-> "getVolume", calls |-> 1,
                           notReady |-> 0, err |-> NoErr]],
            !.calls.getVolume = @ + Len(cv.keys)]

\* onGetVolume that takes any volume it gets as ready.
OnGetVolumeAnyState(r, i, getVolumeErr, volume) ==
    IF getVolumeErr.isErr THEN LoopDone(r, i, getVolumeErr)
    ELSE LoopDone([r EXCEPT !.job.createdVolumes = Put(@, volume.uuid, volume)],
                  i, NoErr)

\* onGetVolume that keeps the record the run already had.
OnGetVolumeKeepsRecord(r, i, getVolumeErr, volume) ==
    IF getVolumeErr.isErr THEN LoopDone(r, i, getVolumeErr)
    ELSE IF Truthy(volume) /\ volume.state = "ready" THEN LoopDone(r, i, NoErr)
    ELSE [r EXCEPT !.loops[i].st = "timer", !.loops[i].notReady = @ + 1]

\* onGetVolume that stores the ready volume under the map's first key.
OnGetVolumeFirstKey(r, i, getVolumeErr, volume) ==
    IF getVolumeErr.isErr THEN LoopDone(r, i, getVolumeErr)
    ELSE IF Truthy(volume) /\ volume.state = "ready"
    THEN LoopDone([r EXCEPT !.job.createdVolumes = Put(@, @.keys[1], volume)],
                  i, NoErr)
    ELSE [r EXCEPT !.loops[i].st = "timer", !.loops[i].notReady = @ + 1]

\* onGetVolume that ends the loop with an error on a volume in state
\* 'failed'.
OnGetVolumeChecksFailed(r, i, getVolumeErr, volume) ==
    IF getVolumeErr.isErr THEN LoopDone(r, i, getVolumeErr)
    ELSE IF Truthy(volume) /\ volume.state = "ready"
    THEN LoopDone([r EXCEPT !.job.createdVolumes = Put(@, volume.uuid, volume)],
                  i, NoErr)
    ELSE IF Truthy(volume) /\ volume.state = "failed"
    THEN LoopDone(r, i, Err("volume failed", ""))
    ELSE [r EXCEPT !.loops[i].st = "timer", !.loops[i].notReady = @ + 1]

\* onGetVolume(getVolumeErr, volume)
OnGetVolume(r, i, getVolumeErr, volume) ==
    IF getVolumeErr.isErr THEN LoopDone(r, i, getVolumeErr)
    ELSE IF Truthy(volume) /\ volume.state = "ready"
    THEN LoopDone([r EXCEPT !.job.createdVolumes = Put(@, volume.uuid, volume)],
                  i, NoErr)
    ELSE [r EXCEPT !.loops[i].st = "timer", !.loops[i].notReady = @ + 1]

\* checkVolumeReady() run by the timer: the next getVolume call.
CheckVolumeReady(r, i) ==
    [r EXCEPT !.loops[i].st = "getVolume", !.loops[i].calls = @ + 1,
              !.calls.getVolume = @ + 1]

(***************************************************************************)
(* buildNfsVolumesMetadata, setupUpdateVmNfsVolumesMetadataRequest         *)
(***************************************************************************)
\* The entries pushed by the for-in loop over job.createdVolumes.
NfsVolumesMetadata(job) ==
    [i \in 1..Len(job.createdVolumes.keys) |->
        LET volume == job.createdVolumes.vals[i] IN
        JObj(<<KeyNfsvolume, KeyMountpoint>>,
             <<volume.filesystem_path,
               PropertyOf(Get(job.mapRequiredNfsVolumes, volume.name), KeyMountpoint)>>)]

\* A reference to the object found at `path`, with its content.
Ref(path, val) == [ref |-> path, val |-> val]

\* A deepCopy that hands back the object it was given.
DeepCopyAliasing(o) == o

\* jsprim.deepCopy(obj): a new object with the content of obj.
DeepCopy(o) == [ref |-> "copy", val |-> o.val]

\* o[k] = v: the object written, and the run, whose job.vm.internal_metadata
\* is written too when o is that very object.
SetProperty(r, o, k, v) ==
    [obj |-> [o EXCEPT !.val = Put(@, k, v)],
     run |-> IF o.ref = "job.vm.internal_metadata"
             THEN [r EXCEPT !.job.vm.internal_metadata = Put(@, k, v)]
             ELSE r]

BuildNfsVolumesMetadata(r) ==
    LET job == r.job
        stringifiedNfsVolumesMetadata == Stringify(JArr(NfsVolumesMetadata(job)))
        vmInternalMetadata ==
            DeepCopy(Ref("job.vm.internal_metadata", job.vm.internal_metadata))
        written == SetProperty(r, vmInternalMetadata, KeyNfsVolumes,
                               JStr(stringifiedNfsVolumesMetadata))
    IN
    IF ~TypeofObject(job.vm)
    THEN TaskCallback(r, Err("job.vm must be an object", ""), "")
    ELSE IF ~TypeofObject(job.createdVolumes)
    THEN TaskCallback(r, Err("job.createdVolumes must be an object", ""), "")
    ELSE IF ~Truthy(job.createdVolumes) \/ Len(job.createdVolumes.keys) = 0
    THEN TaskCallback(r, NoErr,
             "No NFS volume with which to update VM's internal metadata")
    ELSE IF \E i \in 1..Len(job.createdVolumes.keys) :
               Get(job.mapRequiredNfsVolumes, job.createdVolumes.vals[i].name) = Undefined
    THEN \* reading .mountpoint of undefined throws a TypeError
         [r EXCEPT !.status = "failed", !.pc = "threw"]
    ELSE TaskCallback(
             [written.run EXCEPT !.job.updatedVmInternalMetadata = written.obj.val,
                                 !.updatedRef = written.obj.ref],
             NoErr, "Built docker:nfsvolumes internal_metadata:")

\* setupUpdateVmNfsVolumesMetadataRequest that fills in the request before
\* it looks at the delta.
SetupUpdateVmNfsVolumesMetadataRequestSetsFirst(r) ==
    LET job == r.job
        r1 == [r EXCEPT
                 !.job.endpoint = JText("/servers/" \o Params.server_uuid \o "/vms/"
                                        \o Params.vm_uuid \o "/update"),
                 !.job.requestMethod = JText("post"),
                 !.job.action = JText("update"),
                 !.job.server_uuid = JText(Params.server_uuid)]
    IN
    IF job.updatedVmInternalMetadata.t = "null"
       \/ ~TypeofObject(job.updatedVmInternalMetadata)
    THEN TaskCallback(r1, Err("job.updatedVmInternalMetadata must be an object", ""), "")
    ELSE TaskCallback(
             [r1 EXCEPT
                 !.job.payload = [set_internal_metadata |-> job.updatedVmInternalMetadata]],
             NoErr, "Request has been setup!")

\* setupUpdateVmNfsVolumesMetadataRequest(job, callback)
SetupUpdateVmNfsVolumesMetadataRequest(r) ==
    LET job == r.job IN
    IF job.updatedVmInternalMetadata.t = "null"
       \/ ~TypeofObject(job.updatedVmInternalMetadata)
    THEN TaskCallback(r, Err("job.updatedVmInternalMetadata must be an object", ""), "")
    ELSE TaskCallback(
             [r EXCEPT
                 !.job.endpoint = JText("/servers/" \o Params.server_uuid \o "/vms/"
                                        \o Params.vm_uuid \o "/update"),
                 !.job.requestMethod = JText("post"),
                 !.job.action = JText("update"),
                 !.job.server_uuid = JText(Params.server_uuid),
                 !.job.payload = [set_internal_metadata |-> job.updatedVmInternalMetadata]],
             NoErr, "Request has been setup!")

(***************************************************************************)
(* waitForNfsVolumesMetadataUpdated (exported in no task of the chain)     *)
(***************************************************************************)
\* An invocation of waitForNfsVolumesMetadataUpdated(job, callback): the
\* job it was given, its getVm calls, the answers that did not show the
\* expected value, and the invocations of callback.
IdlePoller ==
    [st |-> "idle", job |-> FreshJob, calls |-> 0, notUpdated |-> 0, cbs |-> <<>>]

PollerCallback(p, err, msg) ==
    [p EXCEPT !.st = "done", !.cbs = Append(@, [err |-> err, msg |-> msg])]

\* waitForNfsVolumesMetadataUpdated(job, callback) up to the first getVm
\* call of checkMetadataUpdated.
WaitForNfsVolumesMetadataUpdated(p, job) ==
    LET p1 == [p EXCEPT !.job = job] IN
    IF ~TypeofObject(job.vm)
    THEN PollerCallback(p1, Err("job.vm must be an object", ""), "")
    ELSE IF ~IsString(job.stringifiedRequiredNfsVolumesMetadata)
    THEN PollerCallback(p1,
             Err("job.stringifiedRequiredNfsVolumesMetadata must be a string", ""), "")
    ELSE IF ~TypeofObject(job.createdVolumes)
    THEN PollerCallback(p1, Err("job.createdVolumes must be an object", ""), "")
    ELSE IF ~Truthy(job.createdVolumes) \/ Len(job.createdVolumes.keys) = 0
    THEN PollerCallback(p1, NoErr,
             "No NFS volume with which to update VM's internal metadata")
    ELSE [p1 EXCEPT !.st = "getVm", !.calls = 1]

\* onGetVm that schedules another check when getVm fails.
OnGetVmOfCheckRetries(p, err, vm) ==
    LET currentVmNfsVolumesMetadata ==
            IF ~err.isErr /\ Truthy(vm.internal_metadata)
            THEN PropertyOf(vm.internal_metadata, KeyNfsVolumes)
            ELSE Undefined
    IN
    IF currentVmNfsVolumesMetadata = p.job.stringifiedRequiredNfsVolumesMetadata
    THEN PollerCallback(p, NoErr, "NFS volumes metadata updated successfully")
    ELSE [p EXCEPT !.st = "timer",
                   !.notUpdated = IF err.isErr THEN @ ELSE @ + 1]

\* onGetVm that compares what the two strings represent.
OnGetVmOfCheckSemantic(p, err, vm) ==
    LET currentVmNfsVolumesMetadata ==
            IF Truthy(vm.internal_metadata)
            THEN PropertyOf(vm.internal_metadata, KeyNfsVolumes)
            ELSE Undefined
    IN
    IF err.isErr
    THEN PollerCallback(p, Err("Error when getting VM: ", ErrText(err)), "")
    ELSE IF /\ IsString(currentVmNfsVolumesMetadata)
            /\ JsonParse(currentVmNfsVolumesMetadata.s)
                 = JsonParse(p.job.stringifiedRequiredNfsVolumesMetadata.s)
    THEN PollerCallback(p, NoErr, "NFS volumes metadata updated successfully")
    ELSE [p EXCEPT !.st = "timer", !.notUpdated = @ + 1]

\* onGetVm(err, vm) of checkMetadataUpdated
OnGetVmOfCheck(p, err, vm) ==
    LET currentVmNfsVolumesMetadata ==
            IF Truthy(vm.internal_metadata)
            THEN PropertyOf(vm.internal_metadata, KeyNfsVolumes)
            ELSE Undefined
    IN
    IF err.isErr
    THEN PollerCallback(p, Err("Error when getting VM: ", ErrText(err)), "")
    ELSE IF currentVmNfsVolumesMetadata = p.job.stringifiedRequiredNfsVolumesMetadata
    THEN PollerCallback(p, NoErr, "NFS volumes metadata updated successfully")
    ELSE [p EXCEPT !.st = "timer", !.notUpdated = @ + 1]

\* checkMetadataUpdated() run by the timer: the next getVm call.
CheckMetadataUpdated(p) == [p EXCEPT !.st = "getVm", !.calls = @ + 1]

(***************************************************************************)
(* The backfill of image_uuid for KVM VMs, from src/unnamed/part_000       *)
(***************************************************************************)
\* VMS_LIMIT when the environment sets none.
DefaultVmsLimit == 10

KeyImageUuid == <<"i", "m", "a", "g", "e", "_", "u", "u", "i", "d">>

\* The script's state: the KVM VMs moray holds (in the order listVms
\* returns them), the globals totalNbKvmVms and nbProcessedVms, the
\* variables of the current processVms(offset, limit, cb) call with the
\* count it was given, the VMs whose putVm is pending, and, for every VM,
\* how often it was counted as processed and how often putVm was called for
\* it with which record.
Backfill(vms, vmsLimit) ==
    [pc |-> "idle", vms |-> vms, VMS_LIMIT |-> vmsLimit,
     totalNbKvmVms |-> 0, nbProcessedVms |-> 0,
     offset |-> 0, limit |-> 0, done |-> 0, count |-> 0,
     pending |-> {}, processed |-> [k \in 1..Len(vms) |-> 0],
     puts |-> [k \in 1..Len(vms) |-> <<>>],
     faults |-> 0, closed |-> FALSE]

IdleBackfill == Backfill(<<>>, DefaultVmsLimit)

\* processVms(offset, limit, cb) up to its countVms request.
ProcessVms(b, offset, limit) ==
    [b EXCEPT !.offset = offset, !.limit = limit, !.done = 0, !.pc = "countVms"]

\* processCb(err)
ProcessCb(b, err) ==
    IF b.nbProcessedVms < b.totalNbKvmVms
    THEN ProcessVms(b, b.nbProcessedVms, b.VMS_LIMIT)
    ELSE [b EXCEPT !.pc = "done", !.closed = TRUE]

\* wait()
Wait(b) ==
    IF b.done = b.limit THEN ProcessCb(b, NoErr) ELSE [b EXCEPT !.pc = "wait"]

\* nbProcessedVms += 1; done += 1, for the k-th VM.
CountProcessed(b, k) ==
    [b EXCEPT !.nbProcessedVms = @ + 1, !.done = @ + 1, !.processed[k] = @ + 1]

\* disks && disks[0] && disks[0].image_uuid
FirstDiskImageUuid(disks) ==
    IF ~Truthy(disks) THEN disks
    ELSE IF disks.t # "array" \/ Len(disks.items) = 0 THEN Undefined
    ELSE IF ~Truthy(disks.items[1]) THEN disks.items[1]
    ELSE PropertyOf(disks.items[1], KeyImageUuid)

\* processVm(vm) for the k-th VM of moray.
ProcessVm(b, k) ==
    LET vm == b.vms[k]
        parse == IF IsString(vm.disks) THEN JsonParse(vm.disks.s)
                 ELSE [ok |-> TRUE, val |-> vm.disks]
        image == FirstDiskImageUuid(parse.val)
    IN
    IF Truthy(vm.image_uuid) THEN CountProcessed(b, k)
    ELSE IF ~parse.ok THEN CountProcessed(b, k)
    ELSE IF Truthy(image)
    THEN [b EXCEPT !.pending = @ \cup {k},
                   !.puts[k] = Append(@, [vm EXCEPT !.image_uuid = image])]
    ELSE CountProcessed(b, k)

\* vms.forEach(processVm) over the VMs number from..to of moray.
RECURSIVE ForEachVm(_, _, _)
ForEachVm(b, from, to) ==
    IF from > to THEN b ELSE ForEachVm(ProcessVm(b, from), from + 1, to)

Min(a, b) == IF a < b THEN a ELSE b

\* onCount(countVmsErr, count)
OnCount(b, countVmsErr, count) ==
    IF countVmsErr.isErr THEN [b EXCEPT !.pc = "exit"]
    ELSE [b EXCEPT !.pc = "listVms", !.count = count]

\* The callback of listVms: moray answers the query {offset, limit} with
\* the VMs offset + 1 .. offset + limit it holds.
OnListVms(b, err) ==
    LET b1 == [b EXCEPT
                 !.totalNbKvmVms = IF @ = 0 THEN b.count ELSE @,
                 !.limit = IF b.count < @ THEN b.count ELSE @]
    IN
    IF err.isErr THEN ProcessCb(b, err)
    ELSE Wait(ForEachVm(b1, b.offset + 1, Min(b.offset + b.limit, Len(b.vms))))

\* The callback of putVm for the k-th VM.
OnPutVm(b, k, perr) ==
    LET b1 == [CountProcessed(b, k) EXCEPT !.pending = @ \ {k}] IN
    IF perr.isErr THEN b1
    ELSE [b1 EXCEPT !.vms[k] = b.puts[k][Len(b.puts[k])]]

(***************************************************************************)
(* The inputs: the VM, and the volumes VOLAPI holds when the runs start    *)
(***************************************************************************)
NameData == <<"d", "a", "t", "a">>
NameLogs == <<"l", "o", "g", "s">>
MountData == <<"/", "d">>
\* A mount point with a character that JSON escapes: /\l
MountLogs == <<"/", Backslash, "l">>

\* The JSON text of a string without characters to escape.
Lit(chars) == <<Quote>> \o chars \o <<Quote>>
\* {"name":"data","mountpoint":"/d"}
TextData ==
    <<"{">> \o Lit(KeyName) \o <<":">> \o Lit(NameData) \o <<",">>
    \o Lit(KeyMountpoint) \o <<":">> \o Lit(MountData) \o <<"}">>
\* {"name":"logs","mountpoint":"/\\l"}
TextLogs ==
    <<"{">> \o Lit(KeyName) \o <<":">> \o Lit(NameLogs) \o <<",">>
    \o Lit(KeyMountpoint) \o <<":">> \o Lit(<<"/", Backslash, Backslash, "l">>) \o <<"}">>

\* {"name":"data","mountpoint":"/e"}
TextDataElsewhere ==
    <<"{">> \o Lit(KeyName) \o <<":">> \o Lit(NameData) \o <<",">>
    \o Lit(KeyMountpoint) \o <<":">> \o Lit(<<"/", "e">>) \o <<"}">>

DeclaresNone == JStr(<<"[", "]">>)
\* One name declared twice, with two mount points.
DeclaresDataTwice == JStr(<<"[">> \o TextData \o <<",">> \o TextDataElsewhere \o <<"]">>)
DeclaresData == JStr(<<"[">> \o TextData \o <<"]">>)
DeclaresDataAndLogs == JStr(<<"[">> \o TextData \o <<",", " ">> \o TextLogs \o <<"]">>)
DeclaresDataAndNull == JStr(<<"[">> \o TextData \o <<",", "n", "u", "l", "l", "]">>)

\* Values of internal_metadata['docker:nfs_volumes_required'].
WellFormedRequired == {DeclaresNone, DeclaresData, DeclaresDataAndLogs, DeclaresDataTwice}
EmptyRequired == {Undefined, JStr(<<>>)}
MalformedRequired ==
    { JNum(5), JStr(<<"[", "{">>), JStr(<<"{", "}">>), JStr(<<"[", "5", "]">>),
      DeclaresDataAndNull }

Nics ==
    << [t |-> "object", nic_tag |-> JStr(OverlayPrefix \o <<"7">>),
        network_uuid |-> JStr(<<"n", "1">>)],
       [t |-> "object", nic_tag |-> JStr(<<"e", "x", "t">>),
        network_uuid |-> JStr(<<"n", "2">>)] >>

Vm(meta) ==
    [t |-> "object", uuid |-> Params.vm_uuid, owner_uuid |-> Params.owner_uuid,
     internal_metadata |-> meta, nics |-> Nics]

MetaWith(required) ==
    IF required = Undefined THEN JObj(<<"user-script">>, <<JStr(<<"s">>)>>)
    ELSE JObj(<<"user-script", KeyRequired>>, <<JStr(<<"s">>), required>>)

VmChoices ==
    {Undefined, Vm(Undefined)}
    \cup {Vm(MetaWith(q)) : q \in WellFormedRequired \cup EmptyRequired \cup MalformedRequired}

ExistingVolume(i, name, state) ==
    [t |-> "object", uuid |-> VolUuid(i), name |-> name,
     owner_uuid |-> Params.owner_uuid, state |-> state,
     filesystem_path |-> IF state = "ready" THEN FilesystemPath(i, name) ELSE Undefined,
     networks |-> <<JStr(<<"n", "1">>)>>]

\* What an earlier run may have left in VOLAPI; the last choice is a store
\* that holds two volumes of one name and owner.
VolumesChoices ==
    { <<>>,
      <<ExistingVolume(1, NameData, "ready")>>,
      <<ExistingVolume(1, NameData, "creating")>>,
      <<ExistingVolume(1, NameData, "ready"), ExistingVolume(2, NameData, "ready")>> }

NoTask == [st |-> "none", payload |-> Undefined]

InitWith(vms, vols, second) ==
    /\ vmapiVm \in vms
    /\ nodeMeta = IF vmapiVm = Undefined THEN Undefined ELSE vmapiVm.internal_metadata
    /\ volumes \in vols
    /\ nodeTasks = [j \in Jobs |-> NoTask]
    /\ runs = [j \in Jobs |->
                  FreshRun(IF j = "run1" \/ second THEN "running" ELSE "idle")]
    /\ faults = 0
    /\ poller = IdlePoller
    /\ backfill = IdleBackfill

\* One run of the workflow, on every input.
Init == InitWith(VmChoices, VolumesChoices, FALSE)

(***************************************************************************)
(* Actions: one per task body, callback and timer                          *)
(***************************************************************************)
InForEach(r, body) ==
    /\ r.status = "running"
    /\ r.pc = "tasks"
    /\ provisionChain[r.step].body = body

\* provisionNfsVolumes(job, cb): the pipeline starts loadRequiredNfsVolumes,
\* which sends getVm.
StartProvisionNfsVolumes(j) ==
    /\ AtTask(runs[j], "provisionNfsVolumes")
    /\ runs' = [runs EXCEPT
                   ![j].pc = "getVm",
                   ![j].afterOther = \E o \in Jobs \ {j} :
                                         runs[o].step > 1 \/ runs[o].status = "succeeded"]
    /\ UNCHANGED <<vmapiVm, nodeMeta, volumes, nodeTasks, faults, poller, backfill>>

HandleGetVm(j) ==
    /\ runs[j].status = "running"
    /\ runs[j].pc = "getVm"
    /\ runs' = [runs EXCEPT ![j] = OnGetVm(runs[j], vmapiVm)]
    /\ UNCHANGED <<vmapiVm, nodeMeta, volumes, nodeTasks, faults, poller, backfill>>

\* A createVolume request of run j is pending for the i-th required name.
CreateVolumePending(j, i) ==
    /\ InForEach(runs[j], "provisionNfsVolumes")
    /\ runs[j].tasks[i].st = "createVolume"

\* VOLAPI fails a createVolume request.
CreateVolumeFails(j, i) ==
    /\ CreateVolumePending(j, i)
    /\ faults < MaxFaults
    /\ faults' = faults + 1
    /\ runs' = [runs EXCEPT ![j] =
                   OnVolumeCreated(runs[j], i, Err("InternalError", ""), Undefined)]
    /\ UNCHANGED <<vmapiVm, nodeMeta, volumes, nodeTasks, poller, backfill>>

\* VOLAPI holds a volume of that name and owner: the duplicate-name conflict.
CreateVolumeConflicts(j, i) ==
    /\ CreateVolumePending(j, i)
    /\ ListVolumes(volumes, runs[j].tasks[i].input, Params.owner_uuid) # <<>>
    /\ runs' = [runs EXCEPT ![j] =
                   OnVolumeCreated(runs[j], i, Err("VOLUME_ALREADY_EXISTS", ""),
                                   Undefined)]
    /\ UNCHANGED <<vmapiVm, nodeMeta, volumes, nodeTasks, faults, poller, backfill>>

\* VOLAPI holds no such volume: it checks and creates in one step.
CreateVolumeSucceeds(j, i) ==
    LET made == CreatedVolume(volumes, runs[j], runs[j].tasks[i].input) IN
    /\ CreateVolumePending(j, i)
    /\ ListVolumes(volumes, runs[j].tasks[i].input, Params.owner_uuid) = <<>>
    /\ volumes' = Append(volumes, made)
    /\ runs' = [runs EXCEPT ![j] = OnVolumeCreated(runs[j], i, NoErr, made)]
    /\ UNCHANGED <<vmapiVm, nodeMeta, nodeTasks, faults, poller, backfill>>

ListVolumesPending(j, i) ==
    /\ InForEach(runs[j], "provisionNfsVolumes")
    /\ runs[j].tasks[i].st = "listVolumes"

ListVolumesFails(j, i) ==
    /\ ListVolumesPending(j, i)
    /\ faults < MaxFaults
    /\ faults' = faults + 1
    /\ runs' = [runs EXCEPT ![j] =
                   OnListVolumes(runs[j], i, Err("InternalError", ""), <<>>)]
    /\ UNCHANGED <<vmapiVm, nodeMeta, volumes, nodeTasks, poller, backfill>>

ListVolumesAnswers(j, i) ==
    /\ ListVolumesPending(j, i)
    /\ runs' = [runs EXCEPT ![j] =
                   OnListVolumes(runs[j], i, NoErr,
                       ListVolumes(volumes, runs[j].tasks[i].input, Params.owner_uuid))]
    /\ UNCHANGED <<vmapiVm, nodeMeta, volumes, nodeTasks, faults, poller, backfill>>

StartWaitForNfsVolumeProvisions(j) ==
    /\ AtTask(runs[j], "waitForNfsVolumeProvisions")
    /\ runs' = [runs EXCEPT ![j] = WaitForNfsVolumeProvisions(runs[j])]
    /\ UNCHANGED <<vmapiVm, nodeMeta, volumes, nodeTasks, faults, poller, backfill>>

GetVolumePending(j, i) ==
    /\ InForEach(runs[j], "waitForNfsVolumeProvisions")
    /\ runs[j].loops[i].st = "getVolume"

GetVolumeFails(j, i) ==
    /\ GetVolumePending(j, i)
    /\ faults < MaxFaults
    /\ faults' = faults + 1
    /\ runs' = [runs EXCEPT ![j] =
                   OnGetVolume(runs[j], i, Err("InternalError", ""), Undefined)]
    /\ UNCHANGED <<vmapiVm, nodeMeta, volumes, nodeTasks, poller, backfill>>

GetVolumeAnswers(j, i) ==
    LET volume == GetVolume(volumes, runs[j].loops[i].uuid) IN
    /\ GetVolumePending(j, i)
    /\ runs' = [runs EXCEPT ![j] =
                   IF volume = Undefined
                   THEN OnGetVolume(runs[j], i, Err("ResourceNotFound", ""), Undefined)
                   ELSE OnGetVolume(runs[j], i, NoErr, volume)]
    /\ UNCHANGED <<vmapiVm, nodeMeta, volumes, nodeTasks, faults, poller, backfill>>

TimerCheckVolumeReady(j, i) ==
    /\ InForEach(runs[j], "waitForNfsVolumeProvisions")
    /\ runs[j].loops[i].st = "timer"
    /\ runs[j].loops[i].calls < MaxPolls
    /\ runs' = [runs EXCEPT ![j] = CheckVolumeReady(runs[j], i)]
    /\ UNCHANGED <<vmapiVm, nodeMeta, volumes, nodeTasks, faults, poller, backfill>>

RunBuildNfsVolumesMetadata(j) ==
    /\ AtTask(runs[j], "buildNfsVolumesMetadata")
    /\ runs' = [runs EXCEPT ![j] = BuildNfsVolumesMetadata(runs[j])]
    /\ UNCHANGED <<vmapiVm, nodeMeta, volumes, nodeTasks, faults, poller, backfill>>

RunSetupUpdateVmNfsVolumesMetadataRequest(j) ==
    /\ AtTask(runs[j], "setupUpdateVmNfsVolumesMetadataRequest")
    /\ runs' = [runs EXCEPT ![j] = SetupUpdateVmNfsVolumesMetadataRequest(runs[j])]
    /\ UNCHANGED <<vmapiVm, nodeMeta, volumes, nodeTasks, faults, poller, backfill>>

\* common.zoneAction: posts job.params.payload to job.endpoint; CNAPI
\* answers with the task that will apply it.
ZoneAction(j) ==
    /\ AtTask(runs[j], "common.zoneAction")
    /\ nodeTasks' = [nodeTasks EXCEPT ![j] =
                        [st |-> "queued", payload |-> runs[j].job.payload]]
    /\ runs' = [runs EXCEPT ![j] = TaskCallback(runs[j], NoErr, "Task queued to CNAPI!")]
    /\ UNCHANGED <<vmapiVm, nodeMeta, volumes, faults, poller, backfill>>

\* common.waitTask: calls back once CNAPI reports the task complete.
WaitTask(j) ==
    /\ AtTask(runs[j], "common.waitTask")
    /\ nodeTasks[j].st = "complete"
    /\ runs' = [runs EXCEPT ![j] = TaskCallback(runs[j], NoErr, "Job succeeded!")]
    /\ UNCHANGED <<vmapiVm, nodeMeta, volumes, nodeTasks, faults, poller, backfill>>

RECURSIVE PutAll(_, _, _)
PutAll(o, from, i) ==
    IF i > Len(from.keys) THEN o
    ELSE PutAll(Put(o, from.keys[i], from.vals[i]), from, i + 1)

\* The compute node applies the update: set_internal_metadata sets every
\* key of the payload.
NodeApplyUpdate(j) ==
    /\ nodeTasks[j].st = "queued"
    /\ nodeMeta' = PutAll(nodeMeta, nodeTasks[j].payload.set_internal_metadata, 1)
    /\ nodeTasks' = [nodeTasks EXCEPT ![j].st = "complete"]
    /\ UNCHANGED <<vmapiVm, volumes, runs, faults, poller, backfill>>

\* The node's metadata becomes visible in VMAPI.
VmapiSync ==
    /\ vmapiVm # Undefined
    /\ vmapiVm.internal_metadata # nodeMeta
    /\ vmapiVm' = [vmapiVm EXCEPT !.internal_metadata = nodeMeta]
    /\ UNCHANGED <<nodeMeta, volumes, nodeTasks, runs, faults, poller, backfill>>

\* VOLAPI finishes creating a volume.
VolumeReady(k) ==
    /\ volumes[k].state = "creating"
    /\ volumes' = [volumes EXCEPT ![k].state = "ready",
                                  ![k].filesystem_path = FilesystemPath(k, volumes[k].name)]
    /\ UNCHANGED <<vmapiVm, nodeMeta, nodeTasks, runs, faults, poller, backfill>>

VolumeFailed(k) ==
    /\ volumes[k].state = "creating"
    /\ volumes' = [volumes EXCEPT ![k].state = "failed"]
    /\ UNCHANGED <<vmapiVm, nodeMeta, nodeTasks, runs, faults, poller, backfill>>

\* The owner deletes a volume.
VolumeDeleted(k) ==
    /\ volumes[k].state # "deleted"
    /\ faults < MaxFaults
    /\ faults' = faults + 1
    /\ volumes' = [volumes EXCEPT ![k].state = "deleted"]
    /\ UNCHANGED <<vmapiVm, nodeMeta, nodeTasks, runs, poller, backfill>>

Next ==
    \/ \E j \in Jobs : StartProvisionNfsVolumes(j)
    \/ \E j \in Jobs : HandleGetVm(j)
    \/ \E j \in Jobs : \E i \in 1..Len(runs[j].tasks) : CreateVolumeFails(j, i)
    \/ \E j \in Jobs : \E i \in 1..Len(runs[j].tasks) : CreateVolumeConflicts(j, i)
    \/ \E j \in Jobs : \E i \in 1..Len(runs[j].tasks) : CreateVolumeSucceeds(j, i)
    \/ \E j \in Jobs : \E i \in 1..Len(runs[j].tasks) : ListVolumesFails(j, i)
    \/ \E j \in Jobs : \E i \in 1..Len(runs[j].tasks) : ListVolumesAnswers(j, i)
    \/ \E j \in Jobs : StartWaitForNfsVolumeProvisions(j)
    \/ \E j \in Jobs : \E i \in 1..Len(runs[j].loops) : GetVolumeFails(j, i)
    \/ \E j \in Jobs : \E i \in 1..Len(runs[j].loops) : GetVolumeAnswers(j, i)
    \/ \E j \in Jobs : \E i \in 1..Len(runs[j].loops) : TimerCheckVolumeReady(j, i)
    \/ \E j \in Jobs : RunBuildNfsVolumesMetadata(j)
    \/ \E j \in Jobs : RunSetupUpdateVmNfsVolumesMetadataRequest(j)
    \/ \E j \in Jobs : ZoneAction(j)
    \/ \E j \in Jobs : WaitTask(j)
    \/ \E j \in Jobs : NodeApplyUpdate(j)
    \/ VmapiSync
    \/ \E k \in 1..Len(volumes) : VolumeReady(k)
    \/ \E k \in 1..Len(volumes) : VolumeFailed(k)
    \/ \E k \in 1..Len(volumes) : VolumeDeleted(k)

Spec == Init /\ [][Next]_vars

\* The readiness loops of run j keep going: their timers run and VOLAPI
\* answers their getVolume requests.
Polling(j) ==
    \/ \E i \in 1..Len(runs[j].loops) : GetVolumeAnswers(j, i)
    \/ \E i \in 1..Len(runs[j].loops) : TimerCheckVolumeReady(j, i)

\* One run of the workflow whose readiness loops never stop while they
\* have something to do.
SpecFair == Init /\ [][Next]_vars /\ \A j \in Jobs : WF_vars(Polling(j))

\* Two runs of the workflow for the same VM (a retry racing the first run).
InitRetry ==
    InitWith({Vm(MetaWith(DeclaresData))},
             {<<>>, <<ExistingVolume(1, NameData, "ready")>>,
              <<ExistingVolume(1, NameData, "creating")>>}, TRUE)

SpecRetry == InitRetry /\ [][Next]_vars

\* What is left of a run that is over: nothing of its context, only the
\* createVolume requests VOLAPI has yet to serve (made for the VM it loaded).
Leftover(r) ==
    [FreshRun(IF r.status = "running" THEN "abandoned" ELSE r.status) EXCEPT
        !.job.vm = r.job.vm,
        !.tasks = [i \in 1..Len(r.tasks) |->
                      [input |-> r.tasks[i].input, networks |-> r.tasks[i].networks,
                       st |-> IF r.status = "running" /\ r.tasks[i].st = "createVolume"
                              THEN "createVolume" ELSE "over",
                       err |-> NoErr, result |-> Undefined,
                       lookedUp |-> FALSE, matches |-> -1]]]

\* The workflow is invoked again, with a fresh job and context, after the
\* first run failed or was abandoned wherever it was.
Reinvoke ==
    /\ runs["run1"].status \in {"running", "failed"}
    /\ runs["run2"].status = "idle"
    /\ runs' = [runs EXCEPT !["run1"] = Leftover(@),
                            !["run2"].status = "running",
                            !["run2"].afterOther = TRUE]
    /\ UNCHANGED <<vmapiVm, nodeMeta, volumes, nodeTasks, faults, poller, backfill>>

\* VOLAPI serves a createVolume request whose sender has been abandoned.
CreateVolumeOrphan(j, i) ==
    LET made == CreatedVolume(volumes, runs[j], runs[j].tasks[i].input) IN
    /\ runs[j].status = "abandoned"
    /\ runs[j].tasks[i].st = "createVolume"
    /\ runs' = [runs EXCEPT ![j].tasks[i].st = "over"]
    /\ volumes' = IF ListVolumes(volumes, runs[j].tasks[i].input, Params.owner_uuid) = <<>>
                  THEN Append(volumes, made)
                  ELSE volumes
    /\ UNCHANGED <<vmapiVm, nodeMeta, nodeTasks, faults, poller, backfill>>

NextRerun ==
    \/ Next
    \/ Reinvoke
    \/ \E j \in Jobs : \E i \in 1..Len(runs[j].tasks) : CreateVolumeOrphan(j, i)

\* A run for a VM that requires two volumes, and its re-run from scratch.
InitRerun == InitWith({Vm(MetaWith(DeclaresDataAndLogs))}, {<<>>}, FALSE)

SpecRerun == InitRerun /\ [][NextRerun]_vars

\* waitForNfsVolumesMetadataUpdated is called on the job of a run that is
\* over: as the chain left it, or with the value to wait for filled in.
InvokeWaitForNfsVolumesMetadataUpdated(j, filled) ==
    LET job == runs[j].job IN
    /\ poller.st = "idle"
    /\ runs[j].status \in {"succeeded", "failed"}
    /\ filled => job.updatedVmInternalMetadata # Undefined
    /\ poller' = WaitForNfsVolumesMetadataUpdated(poller,
                     IF filled
                     THEN [job EXCEPT !.stringifiedRequiredNfsVolumesMetadata =
                              Get(job.updatedVmInternalMetadata, KeyNfsVolumes)]
                     ELSE job)
    /\ UNCHANGED <<vmapiVm, nodeMeta, volumes, nodeTasks, runs, faults, backfill>>

GetVmOfCheckFails ==
    /\ poller.st = "getVm"
    /\ faults < MaxFaults
    /\ faults' = faults + 1
    /\ poller' = OnGetVmOfCheck(poller, Err("InternalError", ""), Undefined)
    /\ UNCHANGED <<vmapiVm, nodeMeta, volumes, nodeTasks, runs, backfill>>

GetVmOfCheckAnswers ==
    /\ poller.st = "getVm"
    /\ poller' = OnGetVmOfCheck(poller, NoErr, vmapiVm)
    /\ UNCHANGED <<vmapiVm, nodeMeta, volumes, nodeTasks, runs, faults, backfill>>

TimerCheckMetadataUpdated ==
    /\ poller.st = "timer"
    /\ poller.calls < MaxPolls
    /\ poller' = CheckMetadataUpdated(poller)
    /\ UNCHANGED <<vmapiVm, nodeMeta, volumes, nodeTasks, runs, faults, backfill>>

NextPolls ==
    \/ Next
    \/ \E j \in Jobs : \E filled \in BOOLEAN : InvokeWaitForNfsVolumesMetadataUpdated(j, filled)
    \/ GetVmOfCheckFails
    \/ GetVmOfCheckAnswers
    \/ TimerCheckMetadataUpdated

\* One run of the workflow, and waitForNfsVolumesMetadataUpdated called on
\* its job.
SpecPolls == Init /\ [][NextPolls]_vars

\* [{"nfsvolume":"<i>:/data", "mountpoint":"/d"}]: the entry of the volume
\* 'data' written with a space after the comma.
SpacedEntryText(i) ==
    <<"[", "{">> \o Lit(KeyNfsvolume) \o <<":">> \o Lit(FilesystemPath(i, NameData).s)
    \o <<",", " ">> \o Lit(KeyMountpoint) \o <<":">> \o Lit(MountData) \o <<"}", "]">>

\* What the VM's 'docker:nfsvolumes' may hold before the run: nothing, the
\* value the run will compute, the same entry written otherwise, the entry
\* of another volume.
StaleNfsVolumesChoices ==
    { Undefined,
      JStr(Stringify(JArr(<<JObj(<<KeyNfsvolume, KeyMountpoint>>,
                                 <<FilesystemPath(1, NameData), JStr(MountData)>>)>>))),
      JStr(SpacedEntryText(1)),
      JStr(SpacedEntryText(2)) }

MetaWithNfsVolumes(required, stale) ==
    IF stale = Undefined THEN MetaWith(required)
    ELSE Put(MetaWith(required), KeyNfsVolumes, stale)

\* One run for a VM that requires 'data' and whose metadata may hold a
\* 'docker:nfsvolumes' value already.
InitStale ==
    InitWith({Vm(MetaWithNfsVolumes(DeclaresData, s)) : s \in StaleNfsVolumesChoices},
             {<<>>, <<ExistingVolume(1, NameData, "ready")>>}, FALSE)

SpecStale == InitStale /\ [][NextPolls]_vars

\* Another writer sets a key of the VM's internal_metadata on the node,
\* once a run has loaded the VM and before the node has applied that run's
\* update.
OtherWriterSets ==
    /\ nodeMeta.t = "object"
    /\ \E j \in Jobs :
          /\ runs[j].status = "running"
          /\ runs[j].job.vm # Undefined
          /\ nodeTasks[j].st # "complete"
    /\ Get(nodeMeta, "user-script") # JStr(<<"w">>)
    /\ nodeMeta' = Put(nodeMeta, "user-script", JStr(<<"w">>))
    /\ UNCHANGED <<vmapiVm, volumes, nodeTasks, runs, faults, poller, backfill>>

NextWriter ==
    \/ Next
    \/ OtherWriterSets

\* One run of the workflow beside another writer of the VM's metadata.
SpecWriter == Init /\ [][NextWriter]_vars

\* The mappings job.createdVolumes and job.mapRequiredNfsVolumes may hold
\* when buildNfsVolumesMetadata is called, those the chain never produces
\* together included.
CreatedVolumesChoices ==
    LET data == ExistingVolume(1, NameData, "ready")
        logs == ExistingVolume(2, NameLogs, "ready")
    IN
    { Undefined, JNull, EmptyObj,
      JObj(<<data.uuid>>, <<data>>),
      JObj(<<logs.uuid>>, <<logs>>),
      JObj(<<data.uuid, logs.uuid>>, <<data, logs>>),
      JObj(<<logs.uuid, data.uuid>>, <<logs, data>>) }

MapChoices ==
    { LoadRequiredNfsVolumes(Vm(MetaWith(d))).map :
        d \in {DeclaresNone, DeclaresData, DeclaresDataAndLogs, DeclaresDataTwice} }

\* buildNfsVolumesMetadata about to be called on a job of any content.
InitBuild ==
    /\ vmapiVm \in {Undefined, Vm(MetaWith(Undefined)), Vm(MetaWith(DeclaresData))}
    /\ nodeMeta = IF vmapiVm = Undefined THEN Undefined ELSE vmapiVm.internal_metadata
    /\ volumes = <<>>
    /\ nodeTasks = [j \in Jobs |-> NoTask]
    /\ \E cv \in CreatedVolumesChoices : \E map \in MapChoices :
          runs = [j \in Jobs |->
                     IF j = "run1"
                     THEN [FreshRun("running") EXCEPT
                              !.step = 3,
                              !.job.vm = vmapiVm,
                              !.job.mapRequiredNfsVolumes = map,
                              !.job.createdVolumes = cv]
                     ELSE FreshRun("idle")]
    /\ faults = 0
    /\ poller = IdlePoller
    /\ backfill = IdleBackfill

\* The chain from buildNfsVolumesMetadata on.
NextBuild ==
    \/ \E j \in Jobs : RunBuildNfsVolumesMetadata(j)
    \/ \E j \in Jobs : RunSetupUpdateVmNfsVolumesMetadataRequest(j)
    \/ \E j \in Jobs : ZoneAction(j)
    \/ \E j \in Jobs : WaitTask(j)
    \/ \E j \in Jobs : NodeApplyUpdate(j)
    \/ VmapiSync

SpecBuild == InitBuild /\ [][NextBuild]_vars

(***************************************************************************)
(* The backfill script: its inputs and its callbacks                       *)
(***************************************************************************)
\* KVM VMs in moray.
MaxVms == 3
\* Values of VMS_LIMIT set by the environment.
MaxLimit == 2

ImageUuid == JStr(<<"i">>)
DisksWithImage == JArr(<<JObj(<<KeyImageUuid>>, <<ImageUuid>>)>>)

\* A VM that has its image_uuid, and VMs that have none: with disks whose
\* first one carries it, as an array or as its JSON text, with disks that
\* do not parse, with a first disk that carries none, with no disks.
BackfillVmChoices ==
    { [image_uuid |-> ImageUuid, disks |-> DisksWithImage],
      [image_uuid |-> Undefined, disks |-> DisksWithImage],
      [image_uuid |-> Undefined, disks |-> JStr(Stringify(DisksWithImage))],
      [image_uuid |-> Undefined, disks |-> JStr(<<"[", "{">>)],
      [image_uuid |-> Undefined, disks |-> JArr(<<EmptyObj>>)],
      [image_uuid |-> Undefined, disks |-> Undefined] }

VmsLimitChoices == (1..MaxLimit) \cup {DefaultVmsLimit}

\* The script is started on a moray that holds up to MaxVms KVM VMs; no
\* workflow runs.
InitBackfill ==
    /\ vmapiVm = Undefined
    /\ nodeMeta = Undefined
    /\ volumes = <<>>
    /\ nodeTasks = [j \in Jobs |-> NoTask]
    /\ runs = [j \in Jobs |-> FreshRun("idle")]
    /\ faults = 0
    /\ poller = IdlePoller
    /\ \E n \in 0..MaxVms : \E vms \in [1..n -> BackfillVmChoices] :
          \E vmsLimit \in VmsLimitChoices : backfill = Backfill(vms, vmsLimit)

\* onMorayReady: startProcessingVMs calls processVms(0, VMS_LIMIT, processCb).
StartProcessingVMs ==
    /\ backfill.pc = "idle"
    /\ backfill' = ProcessVms(backfill, 0, backfill.VMS_LIMIT)
    /\ UNCHANGED <<vmapiVm, nodeMeta, volumes, nodeTasks, runs, faults, poller>>

CountVmsFails ==
    /\ backfill.pc = "countVms"
    /\ backfill.faults < MaxFaults
    /\ backfill' = OnCount([backfill EXCEPT !.faults = @ + 1], Err("InternalError", ""), 0)
    /\ UNCHANGED <<vmapiVm, nodeMeta, volumes, nodeTasks, runs, faults, poller>>

CountVmsAnswers ==
    /\ backfill.pc = "countVms"
    /\ backfill' = OnCount(backfill, NoErr, Len(backfill.vms))
    /\ UNCHANGED <<vmapiVm, nodeMeta, volumes, nodeTasks, runs, faults, poller>>

ListVmsFails ==
    /\ backfill.pc = "listVms"
    /\ backfill.faults < MaxFaults
    /\ backfill' = OnListVms([backfill EXCEPT !.faults = @ + 1], Err("InternalError", ""))
    /\ UNCHANGED <<vmapiVm, nodeMeta, volumes, nodeTasks, runs, faults, poller>>

ListVmsAnswers ==
    /\ backfill.pc = "listVms"
    /\ backfill' = OnListVms(backfill, NoErr)
    /\ UNCHANGED <<vmapiVm, nodeMeta, volumes, nodeTasks, runs, faults, poller>>

PutVmFails(k) ==
    /\ k \in backfill.pending
    /\ backfill.faults < MaxFaults
    /\ backfill' = OnPutVm([backfill EXCEPT !.faults = @ + 1], k, Err("InternalError", ""))
    /\ UNCHANGED <<vmapiVm, nodeMeta, volumes, nodeTasks, runs, faults, poller>>

PutVmAnswers(k) ==
    /\ k \in backfill.pending
    /\ backfill' = OnPutVm(backfill, k, NoErr)
    /\ UNCHANGED <<vmapiVm, nodeMeta, volumes, nodeTasks, runs, faults, poller>>

\* wait() run by its timer.
TimerWait ==
    /\ backfill.pc = "wait"
    /\ backfill' = Wait(backfill)
    /\ UNCHANGED <<vmapiVm, nodeMeta, volumes, nodeTasks, runs, faults, poller>>

NextBackfill ==
    \/ StartProcessingVMs
    \/ CountVmsFails
    \/ CountVmsAnswers
    \/ ListVmsFails
    \/ ListVmsAnswers
    \/ \E k \in 1..Len(backfill.vms) : PutVmFails(k)
    \/ \E k \in 1..Len(backfill.vms) : PutVmAnswers(k)
    \/ TimerWait

\* moray answers the requests and the timer of wait() fires.
BackfillAnswered ==
    \/ StartProcessingVMs
    \/ CountVmsAnswers
    \/ \E k \in 1..MaxVms : PutVmAnswers(k)
    \/ TimerWait

\* The script where moray answers every request: the fairness of the
\* listVms answer is written out, its action being enabled exactly while
\* the request is pending.
SpecBackfill ==
    /\ InitBackfill
    /\ [][NextBackfill]_vars
    /\ WF_vars(BackfillAnswered)
    /\ []<>(backfill.pc # "listVms")

(***************************************************************************)
(* Properties                                                              *)
(***************************************************************************)
NoVolapiCall(r) ==
    r.calls = [createVolume |-> 0, listVolumes |-> 0, getVolume |-> 0]

\* The run has loaded a VM whose internal_metadata is a mapping.
LoadedWithMetadata(r) ==
    /\ r.job.vm # Undefined
    /\ r.job.vm.internal_metadata.t = "object"

RequiredField(r) == PropertyOf(r.job.vm.internal_metadata, KeyRequired)

\* C1: for a VM whose internal_metadata exists and whose
\* 'docker:nfs_volumes_required' is absent or the empty string, the run
\* does not fail, has no dependencies (job.createdVolumes is the empty
\* mapping once provisionNfsVolumes has called back) and makes no call to
\* VOLAPI.
C1_NoDependenciesSucceeds ==
    \A j \in Jobs :
        LET r == runs[j] IN
        (LoadedWithMetadata(r) /\ RequiredField(r) \in EmptyRequired)
            => /\ r.status # "failed"
               /\ NoVolapiCall(r)
               /\ r.cbs # <<>> => r.job.createdVolumes = EmptyObj

\* The declaration of the VM the run has loaded is structurally invalid:
\* no metadata mapping, a field that is not a string, a string that is not
\* JSON, JSON that is not an array, an array with a non-object element.
InvalidDeclaration(r) ==
    /\ r.job.vm # Undefined
    /\ \/ r.job.vm.internal_metadata.t # "object"
       \/ RequiredField(r).t \notin {"undefined", "string"}
       \/ /\ RequiredField(r).t = "string"
          /\ RequiredField(r).s # <<>>
          /\ LET parsed == JsonParse(RequiredField(r).s) IN
             \/ ~parsed.ok
             \/ parsed.val.t # "array"
             \/ \E i \in 1..Len(parsed.val.items) : parsed.val.items[i].t # "object"

ExtractionErrors ==
    { "internal_metadata property missing from VM object",
      "docker:nfs_volumes_required internal_metadata property must be a string if present",
      "Could not parse docker:nfs_volumes_required internal metadata",
      "docker:nfs_volumes_required internal metadata must represent an array",
      "requiredVolume must be an object" }

ProvisioningDone(r) ==
    /\ r.tasks # <<>>
    /\ \A i \in 1..Len(r.tasks) : r.tasks[i].st \in {"ok", "fail"}

LiveVolumes(name) == ListVolumes(volumes, name, Params.owner_uuid)

\* C3: provisioning is idempotent. With no failure or deletion injected, a
\* run that starts after another run has finished provisioning gets the
\* duplicate-name conflict for every required name, takes the listVolumes
\* path, and ends with the volume UUID the first run recorded; VOLAPI holds
\* exactly one volume of that name and owner.
C3_ProvisioningIdempotent ==
    \A j \in Jobs : \A o \in Jobs \ {j} :
        LET r == runs[j] IN
        (faults = 0 /\ r.afterOther /\ ProvisioningDone(r))
            => /\ ~r.cbs[1].err.isErr
               /\ \A i \in 1..Len(r.tasks) :
                     /\ r.tasks[i].st = "ok"
                     /\ r.tasks[i].lookedUp
                     /\ r.tasks[i].matches = 1
                     /\ r.tasks[i].result.uuid = runs[o].tasks[i].result.uuid
                     /\ r.job.createdVolumes.keys = runs[o].job.createdVolumes.keys
                     /\ Len(LiveVolumes(r.tasks[i].input)) = 1

\* The second run has looked up the volume the first run created.
C3_Witness ==
    /\ faults = 0
    /\ runs["run2"].afterOther
    /\ ProvisioningDone(runs["run2"])
    /\ runs["run2"].tasks[1].lookedUp
    /\ ~runs["run1"].tasks[1].lookedUp
    /\ runs["run2"].step > 1

\* C4: with VOLAPI checking the name and creating in one step, and no
\* failure or deletion injected, in every interleaving of two runs for the
\* same VM at most one volume of the required name and owner exists and at
\* most one run created it, no run fails, both runs record the same volume
\* UUID in createdVolumes, and both go on to compute the same metadata and
\* the same update payload.
C4_RacingRunsAgree ==
    faults = 0 =>
        /\ Len(LiveVolumes(NameData)) <= 1
        /\ Cardinality({j \in Jobs : \E i \in 1..Len(runs[j].tasks) :
                           runs[j].tasks[i].st = "ok" /\ ~runs[j].tasks[i].lookedUp}) <= 1
        /\ \A j \in Jobs :
              /\ runs[j].status # "failed"
              /\ ProvisioningDone(runs[j]) =>
                    /\ ~runs[j].cbs[1].err.isErr
                    /\ runs[j].job.createdVolumes.keys = <<LiveVolumes(NameData)[1].uuid>>
        /\ \A j \in Jobs : \A o \in Jobs :
              /\ (runs[j].job.createdVolumes # Undefined
                  /\ runs[o].job.createdVolumes # Undefined)
                    => runs[j].job.createdVolumes.keys = runs[o].job.createdVolumes.keys
              /\ (runs[j].job.updatedVmInternalMetadata # Undefined
                  /\ runs[o].job.updatedVmInternalMetadata # Undefined)
                    => runs[j].job.updatedVmInternalMetadata
                           = runs[o].job.updatedVmInternalMetadata
              /\ (runs[j].job.payload # Undefined /\ runs[o].job.payload # Undefined)
                    => runs[j].job.payload = runs[o].job.payload

\* Two runs that raced (neither started after the other had provisioned),
\* one creating the volume and the other looking it up, have both succeeded.
C4_Witness ==
    /\ faults = 0
    /\ \A j \in Jobs : runs[j].status = "succeeded" /\ ~runs[j].afterOther
    /\ runs["run1"].tasks[1].lookedUp
    /\ ~runs["run2"].tasks[1].lookedUp

\* C5: when listVolumes, called after a duplicate-name conflict, answers
\* with zero or with more than one volume, that provisionNfsVolume reports
\* an error and makes no further call; the run writes no created volume
\* into its context, never assigns job.createdVolumes and never polls; and
\* once every task has called back, provisionNfsVolumes has failed.
C5_InconsistentLookupFails ==
    \A j \in Jobs : \A i \in 1..Len(runs[j].tasks) :
        LET r == runs[j] IN
        (r.tasks[i].lookedUp /\ r.tasks[i].matches \notin {-1, 1})
            => /\ r.tasks[i].st = "fail"
               /\ r.tasks[i].err.isErr
               /\ r.tasks[i].result = Undefined
               /\ r.ctx.createdVolumes = EmptyObj
               /\ r.job.createdVolumes = Undefined
               /\ r.calls.createVolume = Len(r.tasks)
               /\ r.calls.listVolumes
                    = Cardinality({k \in 1..Len(r.tasks) : r.tasks[k].lookedUp})
               /\ r.calls.getVolume = 0
               /\ provisionChain[r.step].body = "provisionNfsVolumes"
               /\ IF ProvisioningDone(r)
                  THEN r.status = "failed" /\ Len(r.cbs) = 1 /\ r.cbs[1].err.isErr
                  ELSE r.status = "running" /\ r.cbs = <<>>

\* The lookup of one name found nothing (the volume was deleted after the
\* conflict) while another name's volume was created: the step has failed.
C5_Witness ==
    \E j \in Jobs : \E i, k \in 1..Len(runs[j].tasks) :
        /\ runs[j].tasks[i].lookedUp
        /\ runs[j].tasks[i].matches = 0
        /\ runs[j].tasks[k].st = "ok"
        /\ runs[j].status = "failed"

\* The metadata entry of one volume, as buildNfsVolumesMetadata pushes it.
EntryText(path, mountpoint) ==
    Stringify(JArr(<<JObj(<<KeyNfsvolume, KeyMountpoint>>, <<path, mountpoint>>)>>))

\* C6: end to end, for a VM that declares the one volume
\* {name: "data", mountpoint: "/d"}: when the run reports success it has
\* one created volume, of that name, owned by the VM's owner and ready; it
\* has computed 'docker:nfsvolumes' as the serialized one-element list
\* [{nfsvolume: filesystem_path, mountpoint}]; the update request carried
\* that value; and the VM record read from VMAPI shows that exact value.
C6_EndToEnd ==
    \A j \in Jobs :
        LET r == runs[j]
            cv == r.job.createdVolumes
            expected == JStr(EntryText(cv.vals[1].filesystem_path, JStr(MountData)))
        IN
        (r.status = "succeeded" /\ RequiredField(r) = DeclaresData)
            => /\ Len(cv.keys) = 1
               /\ cv.vals[1].name = NameData
               /\ cv.vals[1].owner_uuid = r.job.vm.owner_uuid
               /\ cv.vals[1].state = "ready"
               /\ Get(r.job.updatedVmInternalMetadata, KeyNfsVolumes) = expected
               /\ nodeTasks[j].st = "complete"
               /\ Get(nodeTasks[j].payload.set_internal_metadata, KeyNfsVolumes) = expected
               /\ PropertyOf(vmapiVm.internal_metadata, KeyNfsVolumes) = expected

NoUpdateNeeded == "No NFS volume with which to update VM's internal metadata"

\* C7: once buildNfsVolumesMetadata has reported success with "no update
\* needed", the run does not fail and requests no node update.
C7_NoUpdateNeededSucceeds ==
    \A j \in Jobs :
        (\E k \in 1..Len(runs[j].cbs) :
            ~runs[j].cbs[k].err.isErr /\ runs[j].cbs[k].msg = NoUpdateNeeded)
            => /\ runs[j].status # "failed"
               /\ nodeTasks[j].st = "none"

\* (filesystem_path, requested mount point) of every created volume.
JoinedVolumes(job) ==
    { << job.createdVolumes.vals[i].filesystem_path,
         PropertyOf(Get(job.mapRequiredNfsVolumes, job.createdVolumes.vals[i].name),
                    KeyMountpoint) >> : i \in 1..Len(job.createdVolumes.keys) }

\* C8: round trip. Whenever buildNfsVolumesMetadata has produced a delta,
\* JSON.parse of its 'docker:nfsvolumes' string is an array of objects with
\* no key but nfsvolume and mountpoint, with one element per created
\* volume, whose (nfsvolume, mountpoint) pairs are exactly the created
\* volumes' filesystem_path joined with the mount point requested for
\* their name.
C8_MetadataRoundTrip ==
    \A j \in Jobs :
        LET job == runs[j].job
            text == Get(job.updatedVmInternalMetadata, KeyNfsVolumes)
            parsed == JsonParse(text.s)
            items == parsed.val.items
        IN
        job.updatedVmInternalMetadata # Undefined
            => /\ text.t = "string"
               /\ parsed.ok
               /\ parsed.val.t = "array"
               /\ Len(items) = Len(job.createdVolumes.keys)
               /\ Cardinality(JoinedVolumes(job)) = Len(job.createdVolumes.keys)
               /\ \A i \in 1..Len(items) :
                     /\ items[i].t = "object"
                     /\ Range(items[i].keys) \subseteq {KeyNfsvolume, KeyMountpoint}
               /\ { <<PropertyOf(items[i], KeyNfsvolume),
                      PropertyOf(items[i], KeyMountpoint)>> : i \in 1..Len(items) }
                    = JoinedVolumes(job)

\* A delta for two volumes, one mounted at a path that JSON escapes.
C8_Witness ==
    \E j \in Jobs :
        /\ runs[j].job.updatedVmInternalMetadata # Undefined
        /\ Len(runs[j].job.createdVolumes.keys) = 2
        /\ <<FilesystemPath(2, NameLogs), JStr(MountLogs)>> \in JoinedVolumes(runs[j].job)

RECURSIVE SumCalls(_, _)
SumCalls(loops, i) == IF i > Len(loops) THEN 0 ELSE loops[i].calls + SumCalls(loops, i + 1)

\* C9: a readiness loop whose getVolume answered "not ready" N times and
\* then "ready" has completed after exactly N + 1 calls, holding the ready
\* record; a loop never completes on a fetch that is not ready, and a loop
\* that has ended issues no further call (the run's getVolume calls are
\* those of its loops, one more than the not-ready answers of each loop
\* that is not waiting for its timer).
C9_ReadinessPollCount ==
    \A j \in Jobs :
        LET r == runs[j] IN
        /\ r.calls.getVolume = SumCalls(r.loops, 1)
        /\ \A i \in 1..Len(r.loops) :
              LET l == r.loops[i] IN
              /\ l.st = "ok" =>
                    /\ l.calls = l.notReady + 1
                    /\ Get(r.job.createdVolumes, l.uuid).state = "ready"
              /\ l.st \in {"getVolume", "fail"} => l.calls = l.notReady + 1
              /\ l.st = "timer" => l.calls = l.notReady

\* A loop has completed on "ready" after fetching "not ready" before.
C9_Witness ==
    \E j \in Jobs : \E i \in 1..Len(runs[j].loops) :
        /\ runs[j].loops[i].st = "ok"
        /\ runs[j].loops[i].notReady >= 1
        /\ runs[j].loops[i].calls = runs[j].loops[i].notReady + 1

\* The task whose body is `body` has called back, with success.
Called(r, body) ==
    \E k \in 1..Len(r.cbs) : provisionChain[r.cbs[k].step].body = body
Succeeded(r, body) ==
    \E k \in 1..Len(r.cbs) :
        provisionChain[r.cbs[k].step].body = body /\ ~r.cbs[k].err.isErr

\* C10: the tasks are strictly sequenced. A run polls getVolume only once
\* every provisioning task has completed and provisionNfsVolumes has
\* succeeded; buildNfsVolumesMetadata runs only once every readiness loop
\* has completed; the update request is set up only after
\* buildNfsVolumesMetadata, sent only after it is set up, and awaited only
\* after it is sent; and provisionChain lists the tasks in that order.
C10_StrictSequencing ==
    /\ [i \in 1..Len(provisionChain) |-> provisionChain[i].name]
         = << "volapi.provision_nfs_volumes", "cnapi.wait_for_nfs_volumes_provisions",
              "cnapi.build_nfs_volumes_metadata",
              "setup_update_vm_nfs_volumes_metadata_request",
              "cnapi.update_vm", "cnapi.wait_task" >>
    /\ [i \in 1..Len(provisionChain) |-> provisionChain[i].body]
         = << "provisionNfsVolumes", "waitForNfsVolumeProvisions",
              "buildNfsVolumesMetadata", "setupUpdateVmNfsVolumesMetadataRequest",
              "common.zoneAction", "common.waitTask" >>
    /\ \A j \in Jobs :
          LET r == runs[j] IN
          /\ (r.calls.getVolume > 0 \/ r.loops # <<>>)
                => /\ \A i \in 1..Len(r.tasks) : r.tasks[i].st = "ok"
                   /\ Succeeded(r, "provisionNfsVolumes")
          /\ (Called(r, "buildNfsVolumesMetadata")
              \/ r.job.updatedVmInternalMetadata # Undefined)
                => /\ \A i \in 1..Len(r.loops) : r.loops[i].st = "ok"
                   /\ Succeeded(r, "waitForNfsVolumeProvisions")
          /\ (Called(r, "setupUpdateVmNfsVolumesMetadataRequest")
              \/ r.job.endpoint # Undefined)
                => Succeeded(r, "buildNfsVolumesMetadata")
          /\ nodeTasks[j].st # "none"
                => /\ Succeeded(r, "setupUpdateVmNfsVolumesMetadataRequest")
                   /\ r.job.endpoint # Undefined
          /\ Called(r, "common.waitTask") => Succeeded(r, "common.zoneAction")

\* A run that provisioned and polled two volumes has gone through every
\* task of the chain.
C10_Witness ==
    \E j \in Jobs :
        /\ runs[j].status = "succeeded"
        /\ Len(runs[j].tasks) = 2
        /\ Len(runs[j].loops) = 2
        /\ Len(runs[j].cbs) = Len(provisionChain)

\* The reported error is the underlying one, or has its text unchanged as
\* the reason it gives (directly or through forEachParallel's MultiError).
Carries(reported, underlying) ==
    \/ reported = underlying
    \/ reported.cause = ErrText(underlying)
    \/ \E n \in 1..2 : reported.cause = ErrText(MultiError(n, underlying))

FirstFailed(ops) ==
    ops[CHOOSE k \in 1..Len(ops) :
            ops[k].st = "fail" /\ \A m \in 1..Len(ops) : ops[m].st = "fail" => k <= m]

\* The error of a createVolume or listVolumes failure reaches the caller of
\* provisionNfsVolumes.
ProvisioningErrorCarried(r) ==
    \A k \in 1..Len(r.cbs) :
        (r.cbs[k].err.isErr
         /\ provisionChain[r.cbs[k].step].body = "provisionNfsVolumes"
         /\ \E i \in 1..Len(r.tasks) : r.tasks[i].st = "fail")
            => Carries(r.cbs[k].err, FirstFailed(r.tasks).err)

\* The error of a getVolume failure reaches the caller of
\* waitForNfsVolumeProvisions.
ReadinessErrorCarried(r) ==
    \A k \in 1..Len(r.cbs) :
        (r.cbs[k].err.isErr
         /\ provisionChain[r.cbs[k].step].body = "waitForNfsVolumeProvisions")
            => Carries(r.cbs[k].err, FirstFailed(r.loops).err)

\* C11: the error a task reports through its completion callback is, or
\* carries unchanged, the underlying error: a createVolume or listVolumes
\* failure during provisioning and a getVolume failure during readiness
\* polling are not replaced by an error that drops the original cause.
C11_ErrorsReachCaller ==
    \A j \in Jobs : ProvisioningErrorCarried(runs[j]) /\ ReadinessErrorCarried(runs[j])

\* The VM record a run has loaded stays as it is in every step.
LoadedVmUnchanged ==
    \A j \in Jobs :
        runs[j].job.vm # Undefined => runs'[j].job.vm = runs[j].job.vm

\* The delta is an object of its own, and the loaded record has not got
\* the key the delta adds.
DeltaIsCopy ==
    \A j \in Jobs :
        LET job == runs[j].job IN
        job.updatedVmInternalMetadata # Undefined
            => /\ runs[j].updatedRef = "copy"
               /\ HasKey(job.updatedVmInternalMetadata, KeyNfsVolumes)
               /\ ~HasKey(job.vm.internal_metadata, KeyNfsVolumes)
               /\ \A k \in Range(job.vm.internal_metadata.keys) :
                     Get(job.updatedVmInternalMetadata, k) = Get(job.vm.internal_metadata, k)

\* C12: buildNfsVolumesMetadata never mutates the loaded VM record:
\* job.vm.internal_metadata keeps its keys and values (no
\* 'docker:nfsvolumes' is added to it) and job.updatedVmInternalMetadata is
\* a distinct copy of it with that key set.
C12_LoadedVmNotMutated == [][LoadedVmUnchanged]_vars /\ []DeltaIsCopy

\* A delta has been built from a VM record that had metadata of its own.
C12_Witness ==
    \E j \in Jobs :
        /\ runs[j].job.updatedVmInternalMetadata # Undefined
        /\ HasKey(runs[j].job.vm.internal_metadata, "user-script")
        /\ Len(runs[j].job.updatedVmInternalMetadata.keys)
             = Len(runs[j].job.vm.internal_metadata.keys) + 1

\* The 'docker:nfsvolumes' value a run computes from the volumes VOLAPI holds
\* for the two required names.
DeltaOfLiveVolumes ==
    JStr(Stringify(JArr(
        << JObj(<<KeyNfsvolume, KeyMountpoint>>,
                <<LiveVolumes(NameData)[1].filesystem_path, JStr(MountData)>>),
           JObj(<<KeyNfsvolume, KeyMountpoint>>,
                <<LiveVolumes(NameLogs)[1].filesystem_path, JStr(MountLogs)>>) >>)))

NoneDeleted == \A k \in 1..Len(volumes) : volumes[k].state # "deleted"

\* C13: the chain is safe to re-run from scratch. After a first run that
\* failed or was abandoned at any point (some, all or none of the volumes
\* created), VOLAPI never holds two volumes of one required name and owner;
\* the re-run does not fail unless a service call fails; and when the re-run
\* has succeeded and no volume was deleted, there is exactly one volume per
\* required name, the re-run's createdVolumes are those volumes, and its
\* delta is the one computed from them, as in an uninterrupted run.
C13_RerunFromScratch ==
    LET r == runs["run2"] IN
    /\ NoneDeleted => \A name \in {NameData, NameLogs} : Len(LiveVolumes(name)) <= 1
    /\ faults = 0 => r.status # "failed"
    /\ (r.status = "succeeded" /\ NoneDeleted)
          => /\ \A name \in {NameData, NameLogs} : Len(LiveVolumes(name)) = 1
             /\ r.job.createdVolumes.keys
                  = <<LiveVolumes(NameData)[1].uuid, LiveVolumes(NameLogs)[1].uuid>>
             /\ Get(r.job.updatedVmInternalMetadata, KeyNfsVolumes) = DeltaOfLiveVolumes
             /\ r.job.payload.set_internal_metadata = r.job.updatedVmInternalMetadata

\* The re-run has succeeded after a first run that was abandoned with one
\* of the two volumes created: it looked that one up and created the other.
C13_Witness ==
    /\ runs["run1"].status = "abandoned"
    /\ \E i \in 1..Len(runs["run1"].tasks) : runs["run1"].tasks[i].st = "over"
    /\ runs["run2"].status = "succeeded"
    /\ NoneDeleted
    /\ \E i, k \in 1..Len(runs["run2"].tasks) :
          runs["run2"].tasks[i].lookedUp /\ ~runs["run2"].tasks[k].lookedUp

\* C14: once buildNfsVolumesMetadata has produced a delta,
\* job.stringifiedRequiredNfsVolumesMetadata is a string, the very value
\* stored under 'docker:nfsvolumes' in job.updatedVmInternalMetadata (what
\* waitForNfsVolumesMetadataUpdated requires before it polls).
C14_PollerExpectedValue ==
    \A j \in Jobs :
        LET job == runs[j].job IN
        job.updatedVmInternalMetadata # Undefined
            => /\ IsString(job.stringifiedRequiredNfsVolumesMetadata)
               /\ job.stringifiedRequiredNfsVolumesMetadata
                    = Get(job.updatedVmInternalMetadata, KeyNfsVolumes)

\* One step of a poll loop, from `a` to `b`, with `fetching` the name of the
\* state in which its fetch is pending: a loop that has ended stays as it
\* is, a fetch is issued only from the timer, and the timer is set only by
\* a fetch that succeeded without finding what the loop waits for.
PollStep(a, b, fetching, misses) ==
    /\ a.st \in {"ok", "fail", "done"} => b = a
    /\ b.calls # a.calls =>
          /\ a.st = "timer"
          /\ b.st = fetching
          /\ b.calls = a.calls + 1
    /\ (b.st = "timer" /\ a.st # "timer") =>
          /\ a.st = fetching
          /\ b[misses] = a[misses] + 1
    /\ b[misses] # a[misses] => (b.st = "timer" /\ a.st = fetching)

\* Every step of the readiness loops and of the metadata poll follows
\* PollStep, and a loop a failed fetch has ended reports that error.
PollLoopsStep ==
    /\ \A j \in Jobs :
          Len(runs'[j].loops) = Len(runs[j].loops) =>
              \A i \in 1..Len(runs[j].loops) :
                  /\ PollStep(runs[j].loops[i], runs'[j].loops[i], "getVolume", "notReady")
                  /\ (runs'[j].loops[i].st = "fail" /\ runs[j].loops[i].st # "fail")
                        => runs'[j].loops[i].err.isErr
    /\ poller.st # "idle" => PollStep(poller, poller', "getVm", "notUpdated")

\* A loop ended by a failed fetch made no fetch after it, and reported it.
FailedFetchIsLast ==
    /\ \A j \in Jobs : \A i \in 1..Len(runs[j].loops) :
          runs[j].loops[i].st = "fail"
              => /\ runs[j].loops[i].err.isErr
                 /\ runs[j].loops[i].calls = runs[j].loops[i].notReady + 1
    /\ poller.st \in {"getVm", "done"} /\ poller.calls > 0
          => poller.calls = poller.notUpdated + 1
    /\ poller.st = "timer" => poller.calls = poller.notUpdated
    /\ poller.st = "done" => Len(poller.cbs) = 1

\* C15: in both poll loops (volume readiness through getVolume, metadata
\* visibility through getVm) a failed fetch stops the loop at once: the
\* loop reports the error, sets no timer and fetches no more; only a
\* successful fetch whose predicate does not hold leads to another fetch.
C15_FailedFetchStopsLoop == [][PollLoopsStep]_vars /\ []FailedFetchIsLast

\* The metadata poll has been ended by a failed getVm after an answer that
\* did not show the expected value, in a run whose readiness loop had
\* fetched a volume that was not ready.
C15_Witness ==
    /\ poller.st = "done"
    /\ poller.notUpdated >= 1
    /\ poller.cbs[1].err.isErr
    /\ poller.cbs[1].err.cause = "InternalError"
    /\ \E j \in Jobs : \E i \in 1..Len(runs[j].loops) : runs[j].loops[i].notReady >= 1

\* A readiness loop of run r has failed while another loop of r polls a
\* volume that VOLAPI failed to create, and so never sees it ready.
FailedBesideNeverReady(r) ==
    \E i, k \in 1..Len(r.loops) :
        /\ r.loops[i].st = "fail"
        /\ r.loops[k].st \in {"getVolume", "timer"}
        /\ GetVolume(volumes, r.loops[k].uuid) # Undefined
        /\ GetVolume(volumes, r.loops[k].uuid).state = "failed"

\* C16: waitForNfsVolumeProvisions completes once one of its loops has
\* failed: when one volume's loop has failed with a fetch error while
\* another volume never becomes ready, the task's completion callback is
\* eventually invoked, with an error.
C16_StepCompletesOnFailure ==
    \A j \in Jobs :
        FailedBesideNeverReady(runs[j])
            ~> (\E c \in 1..Len(runs[j].cbs) :
                   /\ provisionChain[runs[j].cbs[c].step].body = "waitForNfsVolumeProvisions"
                   /\ runs[j].cbs[c].err.isErr)

FailedTasks(r) == {i \in 1..Len(r.tasks) : r.tasks[i].st = "fail"}

\* C17: provisionNfsVolumes succeeds only if the attempt for every required
\* name succeeded, and not before all have ended. If any attempt failed, the
\* task reports one error, which counts the failed names and carries the
\* first one's error, and there is no partial result: the context's
\* createdVolumes stays empty and job.createdVolumes is not assigned.
C17_AllOrNothing ==
    \A j \in Jobs :
        LET r == runs[j] IN
        r.tasks # <<>> =>
            /\ ~ProvisioningDone(r) => r.cbs = <<>>
            /\ Succeeded(r, "provisionNfsVolumes")
                  => \A i \in 1..Len(r.tasks) : r.tasks[i].st = "ok"
            /\ (ProvisioningDone(r) /\ FailedTasks(r) # {})
                  => /\ r.status = "failed"
                     /\ Len(r.cbs) = 1
                     /\ r.cbs[1].err.isErr
                     /\ r.cbs[1].err.cause
                          = ErrText(MultiError(Cardinality(FailedTasks(r)),
                                               FirstFailed(r.tasks).err))
                     /\ r.ctx.createdVolumes = EmptyObj
                     /\ r.job.createdVolumes = Undefined

\* Of two attempts one has succeeded and the other has failed.
C17_Witness ==
    \E j \in Jobs : \E i, k \in 1..Len(runs[j].tasks) :
        /\ ProvisioningDone(runs[j])
        /\ runs[j].tasks[i].st = "ok"
        /\ runs[j].tasks[k].st = "fail"
        /\ runs[j].status = "failed"

\* C18: once provisionNfsVolumes has succeeded, job.createdVolumes maps
\* volume UUID to record, with exactly one entry per required name: each
\* key is its record's uuid, each record's name is a key of
\* mapRequiredNfsVolumes, and each required name has exactly one record.
C18_CreatedVolumesByUuid ==
    \A j \in Jobs :
        LET r == runs[j]
            cv == r.job.createdVolumes
            map == r.job.mapRequiredNfsVolumes
        IN
        Succeeded(r, "provisionNfsVolumes")
            => /\ cv.t = "object"
               /\ Len(cv.keys) = Len(map.keys)
               /\ Cardinality(Range(cv.keys)) = Len(cv.keys)
               /\ \A i \in 1..Len(cv.keys) :
                     /\ cv.keys[i] = cv.vals[i].uuid
                     /\ HasKey(map, cv.vals[i].name)
               /\ \A n \in Range(map.keys) :
                     Cardinality({i \in 1..Len(cv.keys) : cv.vals[i].name = n}) = 1

\* Provisioning has succeeded for two names, one volume looked up, one
\* created.
C18_Witness ==
    \E j \in Jobs : \E i, k \in 1..Len(runs[j].tasks) :
        /\ Succeeded(runs[j], "provisionNfsVolumes")
        /\ Len(runs[j].job.createdVolumes.keys) = 2
        /\ runs[j].tasks[i].lookedUp
        /\ ~runs[j].tasks[k].lookedUp

\* job.createdVolumes holds a volume whose name is no key of
\* job.mapRequiredNfsVolumes.
StrayVolume(job) ==
    /\ job.vm # Undefined
    /\ job.createdVolumes.t = "object"
    /\ \E i \in 1..Len(job.createdVolumes.keys) :
          ~HasKey(job.mapRequiredNfsVolumes, job.createdVolumes.vals[i].name)

OverlayNics(vm) ==
    SelectSeq(vm.nics, LAMBDA n : n.nic_tag.t = "string"
                                    /\ StartsWith(n.nic_tag.s, OverlayPrefix))

\* C20: the networks list of every createVolume request holds exactly the
\* network_uuid of each NIC of the VM whose nic_tag starts with
\* 'sdc_overlay/': it has as many elements as there are such NICs, a NIC
\* without the tag adding none, and such a NIC raises no error.
C20_OnlyOverlayNetworks ==
    \A j \in Jobs : \A i \in 1..Len(runs[j].tasks) :
        LET nets == runs[j].tasks[i].networks
            overlay == OverlayNics(runs[j].job.vm)
        IN
        /\ Len(nets) = Len(overlay)
        /\ \A k \in 1..Len(nets) : nets[k] = overlay[k].network_uuid
        /\ runs[j].tasks[i].err.msg # "network must be an object"

\* The values of nfsvolume in a 'docker:nfsvolumes' string.
ReferencedPaths(text) ==
    LET parsed == JsonParse(text.s) IN
    { PropertyOf(parsed.val.items[i], KeyNfsvolume) : i \in 1..Len(parsed.val.items) }

\* A readiness loop of run r has ended on a fetch that showed the volume
\* ready with that filesystem_path, which is the one VOLAPI gave it.
FetchedReady(r, path) ==
    \E i \in 1..Len(r.loops) :
        LET fetched == Get(r.job.createdVolumes, r.loops[i].uuid) IN
        /\ r.loops[i].st = "ok"
        /\ fetched.state = "ready"
        /\ fetched.filesystem_path = path
        /\ \E k \in 1..Len(volumes) :
              /\ volumes[k].uuid = r.loops[i].uuid
              /\ volumes[k].filesystem_path = path

\* C21: only ready volumes are referenced from VM metadata. Whenever a run
\* has produced a delta or set a node-update payload, 'docker:nfsvolumes'
\* references one path per created volume, each path is a string, and each
\* is the filesystem_path of a record the readiness step of that run
\* fetched in state 'ready'.
C21_OnlyReadyReferenced ==
    \A j \in Jobs :
        LET r == runs[j]
            delta == IF r.job.payload # Undefined
                     THEN r.job.payload.set_internal_metadata
                     ELSE r.job.updatedVmInternalMetadata
            paths == ReferencedPaths(Get(delta, KeyNfsVolumes))
        IN
        (r.job.updatedVmInternalMetadata # Undefined \/ r.job.payload # Undefined)
            => /\ r.job.payload # Undefined
                    => r.job.payload.set_internal_metadata = r.job.updatedVmInternalMetadata
               /\ Cardinality(paths) = Len(r.job.createdVolumes.keys)
               /\ \A path \in paths : path.t = "string" /\ FetchedReady(r, path)
               /\ \A i \in 1..Len(r.job.createdVolumes.keys) :
                     r.job.createdVolumes.vals[i].filesystem_path \in paths

\* A payload references a volume that the run created itself and that its
\* readiness loop first fetched before it was ready.
C21_Witness ==
    \E j \in Jobs : \E i \in 1..Len(runs[j].loops) :
        /\ runs[j].job.payload # Undefined
        /\ ~runs[j].tasks[i].lookedUp
        /\ runs[j].loops[i].notReady >= 1
        /\ runs[j].loops[i].st = "ok"

PollerUpdated ==
    [err |-> NoErr, msg |-> "NFS volumes metadata updated successfully"]

\* A step that ends a getVm call of the metadata poll: on an answer of
\* VMAPI the poll reports success if and only if the fetched VM's
\* 'docker:nfsvolumes' is a string with the very characters of the expected
\* one, and otherwise sets its timer and reports nothing.
PollerFetchStep ==
    LET current == IF vmapiVm = Undefined THEN Undefined
                   ELSE PropertyOf(vmapiVm.internal_metadata, KeyNfsVolumes)
        expected == poller.job.stringifiedRequiredNfsVolumesMetadata
    IN
    (poller.st = "getVm" /\ poller' # poller /\ faults' = faults)
        => IF current.t = "string" /\ current.s = expected.s
           THEN poller'.st = "done" /\ poller'.cbs = <<PollerUpdated>>
           ELSE /\ poller'.st = "timer"
                /\ poller'.cbs = <<>>
                /\ poller'.notUpdated = poller.notUpdated + 1

\* Success is reported by the step of a fetch only, and a poll that has
\* reported nothing is fetching or waiting for its timer.
PollerReportStep ==
    (poller'.cbs # poller.cbs /\ poller.st # "idle") => poller.st = "getVm"

PollerQuietWhilePolling ==
    /\ poller.st \in {"getVm", "timer"} => poller.cbs = <<>>
    /\ poller.st = "done" => Len(poller.cbs) = 1

\* C22: the metadata poll reports success only on a fetch whose
\* internal_metadata['docker:nfsvolumes'] equals the expected string
\* character for character; while the fetched value differs or is absent
\* and the fetches succeed it goes on polling and reports neither success
\* nor failure.
C22_PollerExactMatch ==
    /\ [][PollerFetchStep /\ PollerReportStep]_vars
    /\ []PollerQuietWhilePolling

\* The poll has set its timer on a value that represents the expected list
\* but is written otherwise.
C22_Witness ==
    /\ poller.st = "timer"
    /\ poller.notUpdated >= 1
    /\ PropertyOf(vmapiVm.internal_metadata, KeyNfsVolumes) = JStr(SpacedEntryText(1))
    /\ JsonParse(SpacedEntryText(1))
         = JsonParse(poller.job.stringifiedRequiredNfsVolumesMetadata.s)

\* A step leaves the keys of an assigned job.createdVolumes as they are, and
\* changes an entry only for the loop of that very uuid, as that loop ends
\* on the record it fetched; the entry of a loop that has ended stays.
OwnKeyWritten ==
    \A j \in Jobs :
        LET cv == runs[j].job.createdVolumes
            after == runs'[j].job.createdVolumes
        IN
        cv # Undefined =>
            /\ after.keys = cv.keys
            /\ \A k \in 1..Len(cv.keys) :
                  after.vals[k] # cv.vals[k] =>
                      /\ after.vals[k].uuid = cv.keys[k]
                      /\ after.vals[k].name = cv.vals[k].name
                      /\ \E i \in 1..Len(runs[j].loops) :
                            /\ runs[j].loops[i].uuid = cv.keys[k]
                            /\ runs[j].loops[i].st = "getVolume"
                            /\ runs'[j].loops[i].st = "ok"
                            /\ \A m \in 1..Len(runs[j].loops) :
                                  m # i => runs'[j].loops[m] = runs[j].loops[m]

\* The loops of a run poll distinct uuids, the keys of job.createdVolumes.
LoopsOwnKeys ==
    \A j \in Jobs :
        runs[j].loops # <<>> =>
            /\ [i \in 1..Len(runs[j].loops) |-> runs[j].loops[i].uuid]
                 = runs[j].job.createdVolumes.keys
            /\ Cardinality(Range(runs[j].job.createdVolumes.keys)) = Len(runs[j].loops)

\* C23: in the readiness step each loop writes job.createdVolumes under its
\* own volume's uuid only: in every interleaving the keys of
\* job.createdVolumes stay what they were when the step began, and no loop
\* overwrites the entry another loop wrote.
C23_DisjointKeys == [][OwnKeyWritten]_vars /\ []LoopsOwnKeys

\* Two loops have each replaced the record of their own volume.
C23_Witness ==
    \E j \in Jobs :
        /\ Len(runs[j].loops) = 2
        /\ \A i \in 1..2 :
              /\ runs[j].loops[i].st = "ok"
              /\ runs[j].tasks[i].result.state = "creating"
              /\ runs[j].job.createdVolumes.vals[i].state = "ready"
              /\ runs[j].job.createdVolumes.keys[i] = runs[j].loops[i].uuid

\* The i-th readiness loop of run j polls a volume that VOLAPI failed to
\* create, and no service call has failed and no volume was deleted.
PollsFailedVolume(j, i) ==
    /\ i <= Len(runs[j].loops)
    /\ faults = 0
    /\ GetVolume(volumes, runs[j].loops[i].uuid) # Undefined
    /\ GetVolume(volumes, runs[j].loops[i].uuid).state = "failed"

\* Such a loop is fetching or waiting for its timer, every answer it got
\* was "not ready", and waitForNfsVolumeProvisions has not called back.
StillPolling(j, i) ==
    LET r == runs[j]
        l == r.loops[i]
    IN
    /\ r.status = "running"
    /\ provisionChain[r.step].body = "waitForNfsVolumeProvisions"
    /\ ~Called(r, "waitForNfsVolumeProvisions")
    /\ l.st \in {"getVolume", "timer"}
    /\ l.err = NoErr
    /\ l.calls = IF l.st = "timer" THEN l.notReady ELSE l.notReady + 1

\* C24: the readiness loop checks for 'ready' only. While a created volume
\* is in state 'failed' and no getVolume call fails, its loop goes on
\* fetching (here: up to MaxPolls fetches, every one of them answered "not
\* ready") and waitForNfsVolumeProvisions invokes its completion callback
\* neither with success nor with an error.
C24_FailedVolumePolledForever ==
    /\ [](\A j \in Jobs : \A i \in 1..2 : PollsFailedVolume(j, i) => StillPolling(j, i))
    /\ \A j \in Jobs : \A i \in 1..2 :
          PollsFailedVolume(j, i)
              ~> \/ faults > 0
                 \/ /\ i <= Len(runs[j].loops)
                    /\ StillPolling(j, i)
                    /\ runs[j].loops[i].st = "timer"
                    /\ runs[j].loops[i].notReady = MaxPolls

\* A loop has fetched a failed volume MaxPolls times, beside a loop that
\* has ended on a ready volume; the task has not called back.
C24_Witness ==
    \E j \in Jobs : \E i, k \in 1..2 :
        /\ PollsFailedVolume(j, i)
        /\ runs[j].loops[i].st = "timer"
        /\ runs[j].loops[i].notReady = MaxPolls
        /\ k <= Len(runs[j].loops)
        /\ runs[j].loops[k].st = "ok"
        /\ runs[j].cbs[Len(runs[j].cbs)].step = 1

\* job.updatedVmInternalMetadata is an object (and not null).
DeltaExists(job) ==
    job.updatedVmInternalMetadata.t # "null" /\ TypeofObject(job.updatedVmInternalMetadata)

\* The request set up for the delta of the job: its endpoint, and a payload
\* whose set_internal_metadata has the keys of the loaded internal_metadata
\* and 'docker:nfsvolumes', with the loaded value under every other key and
\* the value computed from the created volumes under 'docker:nfsvolumes'.
RequestOfDelta(job) ==
    LET delta == job.payload.set_internal_metadata
        loaded == job.vm.internal_metadata
    IN
    /\ job.endpoint.text = "/servers/server-1/vms/vm-1/update"
    /\ job.action.text = "update"
    /\ DOMAIN job.payload = {"set_internal_metadata"}
    /\ delta = job.updatedVmInternalMetadata
    /\ Range(delta.keys) = Range(loaded.keys) \cup {KeyNfsVolumes}
    /\ Len(delta.keys) = Cardinality(Range(delta.keys))
    /\ \A k \in Range(loaded.keys) \ {KeyNfsVolumes} : Get(delta, k) = Get(loaded, k)
    /\ Get(delta, KeyNfsVolumes) = JStr(Stringify(JArr(NfsVolumesMetadata(job))))

\* The step of setupUpdateVmNfsVolumesMetadataRequest: with a delta it sets
\* up the request and reports success; without one it reports an error and
\* leaves the job as it was.
SetupStep ==
    \A j \in Jobs :
        (AtTask(runs[j], "setupUpdateVmNfsVolumesMetadataRequest") /\ runs'[j] # runs[j])
            => LET cb == runs'[j].cbs[Len(runs'[j].cbs)] IN
               /\ Len(runs'[j].cbs) = Len(runs[j].cbs) + 1
               /\ provisionChain[cb.step].body = "setupUpdateVmNfsVolumesMetadataRequest"
               /\ IF DeltaExists(runs[j].job)
                  THEN /\ ~cb.err.isErr
                       /\ RequestOfDelta(runs'[j].job)
                       /\ runs'[j].job.updatedVmInternalMetadata
                            = runs[j].job.updatedVmInternalMetadata
                  ELSE /\ cb.err.isErr
                       /\ runs'[j].job = runs[j].job

\* No other step touches the request.
RequestOnlySetUpThere ==
    \A j \in Jobs :
        ~AtTask(runs[j], "setupUpdateVmNfsVolumesMetadataRequest")
            => /\ runs'[j].job.endpoint = runs[j].job.endpoint
               /\ runs'[j].job.action = runs[j].job.action
               /\ runs'[j].job.payload = runs[j].job.payload

\* C25: setupUpdateVmNfsVolumesMetadataRequest, given a delta, sets the
\* endpoint '/servers/<server_uuid>/vms/<vm_uuid>/update' and the payload
\* {set_internal_metadata: delta}, the delta being the loaded
\* internal_metadata on every key but 'docker:nfsvolumes' plus the new
\* 'docker:nfsvolumes' value; given no delta object it reports an error and
\* leaves job.endpoint, job.action and job.params.payload unchanged.
C25_RequestSetUp == [][SetupStep /\ RequestOnlySetUpThere]_vars

\* A request has been set up for the delta of two volumes, built on
\* metadata that has keys of its own.
C25_Witness ==
    \E j \in Jobs :
        /\ Succeeded(runs[j], "setupUpdateVmNfsVolumesMetadataRequest")
        /\ Len(runs[j].job.payload.set_internal_metadata.keys) = 3
        /\ Len(runs[j].job.createdVolumes.keys) = 2

\* The error and success invocations of loadRequiredNfsVolumes' callback
\* for the VM the run loaded.
LoadCallbacks(r) == LoadRequiredNfsVolumes(r.job.vm).callbacks

\* C26: every task body and sub-task invokes its completion callback at
\* most once per invocation, whatever the input: loadRequiredNfsVolumes
\* invokes its callback once, also for a declaration that does not parse or
\* that has an element that is not an object; every task of the chain
\* invokes the engine's callback once; and no invocation reports an error
\* and then success.
C26_CallbackAtMostOnce ==
    \A j \in Jobs :
        LET r == runs[j] IN
        /\ r.nCallback <= 1
        /\ \A s \in 1..Len(provisionChain) :
              Cardinality({k \in 1..Len(r.cbs) : r.cbs[k].step = s}) <= 1
        /\ (r.job.vm # Undefined /\ r.nCallback > 0)
              => \A a, b \in 1..Len(LoadCallbacks(r)) :
                    (a < b /\ LoadCallbacks(r)[a].isErr) => LoadCallbacks(r)[b].isErr

\* The step in which the node applies the update of run j leaves every key
\* but 'docker:nfsvolumes' whose value is no longer the one the run loaded.
NoRevert ==
    \A j \in Jobs :
        (nodeTasks[j].st = "queued" /\ nodeTasks'[j].st = "complete")
            => \A k \in Range(nodeMeta.keys) \ {KeyNfsVolumes} :
                  Get(nodeMeta, k) # Get(runs[j].job.vm.internal_metadata, k)
                      => Get(nodeMeta', k) = Get(nodeMeta, k)

\* C27: no lost update on the VM's metadata. When another writer has
\* changed a key of internal_metadata other than 'docker:nfsvolumes' after
\* the run loaded the VM and before the node applies the run's payload,
\* applying set_internal_metadata does not put back the value the run
\* loaded.
C27_NoLostUpdate == [][NoRevert]_vars

\* C28: the backfill terminates. For every number of KVM VMs and every
\* VMS_LIMIT, the last page holding fewer VMs than the limit included, with
\* countVms, listVms and putVm always answering (no failure injected), the
\* script reaches its DONE branch and closes the connection, and no wait
\* loop of a page goes on for ever.
C28_BackfillTerminates ==
    /\ <>((backfill.pc = "done" /\ backfill.closed) \/ backfill.faults > 0)
    /\ (backfill.pc = "wait") ~> (backfill.pc # "wait")

\* vm.disks, parsed when it is a string.
DisksOf(vm) == IF IsString(vm.disks) THEN JsonParse(vm.disks.s).val ELSE vm.disks

\* putVm is called for a VM only while it has no image_uuid and its first
\* disk carries one, and with that image_uuid.
PutVmOnlyWhereMissing ==
    \A k \in 1..Len(backfill.vms) :
        Len(backfill'.puts[k]) > Len(backfill.puts[k])
            => /\ ~Truthy(backfill.vms[k].image_uuid)
               /\ Truthy(FirstDiskImageUuid(DisksOf(backfill.vms[k])))
               /\ backfill'.puts[k]
                    = <<[backfill.vms[k] EXCEPT
                            !.image_uuid = FirstDiskImageUuid(DisksOf(backfill.vms[k]))]>>

\* C29: the backfill reaches its DONE branch only when every KVM VM that
\* countVms counts has been processed (nbProcessedVms is their number), a
\* failure of listVms on a page included; nbProcessedVms counts every VM at
\* most once and never exceeds totalNbKvmVms; and putVm is called only for
\* VMs that had no image_uuid and whose first disk carries one.
C29_DoneWhenAllProcessed ==
    /\ [](backfill.pc = "done" => backfill.nbProcessedVms = Len(backfill.vms))
    /\ [](\A k \in 1..Len(backfill.vms) : backfill.processed[k] <= 1)
    /\ [](backfill.totalNbKvmVms > 0 => backfill.nbProcessedVms <= backfill.totalNbKvmVms)
    /\ [][PutVmOnlyWhereMissing]_vars
====
